---- MODULE Spec2Model ----
(***************************************************************************)
(* memory-mcp: the in-memory cache, the durable write queue, the index     *)
(* builder, the async writer and the request handlers of the MCP server,   *)
(* over a remote store with optimistic-concurrency revision tokens.        *)
(*                                                                         *)
(* Strings that the code inspects (paths, categories, names) are sequences *)
(* of one-character strings.  File contents are opaque strings; the index  *)
(* content is the parsed IndexFile record.                                 *)
(***************************************************************************)
EXTENDS Integers, Sequences, FiniteSets, TLC

(***************************************************************************)
(* Bounds of the model.                                                    *)
(***************************************************************************)
\* number of save_memory / delete_memory / read_memory(miss) calls served
MaxOps == 2
\* number of process restarts
MaxRestarts == 1

(***************************************************************************)
(* Program constants.                                                      *)
(***************************************************************************)
MAX_FILE_SIZE == 1048576
MAX_RETRIES == 3

INDEX_PATH == <<"i", "n", "d", "e", "x", ".", "j", "s", "o", "n">>

\* the sentinel revision written by an optimistic save of a new path
PendingSha == <<"pending">>
\* `undefined` (no cache entry / no sha argument)
NoSha == <<>>

(***************************************************************************)
(* Characters and strings.                                                 *)
(***************************************************************************)
LowerCase == <<"a", "b", "c", "d", "e", "f", "g", "h", "i", "j", "k", "l", "m",
               "n", "o", "p", "q", "r", "s", "t", "u", "v", "w", "x", "y", "z">>
UpperCase == <<"A", "B", "C", "D", "E", "F", "G", "H", "I", "J", "K", "L", "M",
               "N", "O", "P", "Q", "R", "S", "T", "U", "V", "W", "X", "Y", "Z">>
Digits == <<"0", "1", "2", "3", "4", "5", "6", "7", "8", "9">>

Range(s) == {s[i] : i \in 1..Len(s)}

\* String.prototype.toLowerCase, one character
ToLowerChar(ch) ==
    IF \E i \in 1..Len(UpperCase) : UpperCase[i] = ch
    THEN LowerCase[CHOOSE i \in 1..Len(UpperCase) : UpperCase[i] = ch]
    ELSE ch

ToLowerCase(s) == [i \in 1..Len(s) |-> ToLowerChar(s[i])]

\* the character class [a-z0-9-]
InCategoryClass(ch) == ch \in Range(LowerCase) \cup Range(Digits) \cup {"-"}

\* String.prototype.endsWith
EndsWith(s, suffix) ==
    /\ Len(s) >= Len(suffix)
    /\ SubSeq(s, Len(s) - Len(suffix) + 1, Len(s)) = suffix

\* the order of the characters the model's paths are built from; on these
\* characters localeCompare and the code-unit order of Array.prototype.sort agree
CharOrder == <<"-", ".", "/">> \o Digits \o LowerCase

CharRank(ch) == CHOOSE i \in 1..Len(CharOrder) : CharOrder[i] = ch

RECURSIVE StrLess(_, _)
StrLess(a, b) ==
    IF b = <<>> THEN FALSE
    ELSE IF a = <<>> THEN TRUE
    ELSE IF Head(a) = Head(b) THEN StrLess(Tail(a), Tail(b))
    ELSE CharRank(Head(a)) < CharRank(Head(b))

\* a set of strings as the ascending sequence
RECURSIVE SortStrings(_)
SortStrings(S) ==
    IF S = {} THEN <<>>
    ELSE LET m == CHOOSE x \in S : \A y \in S \ {x} : StrLess(x, y)
         IN <<m>> \o SortStrings(S \ {m})

\* path.split('/')[0] when the path has a slash, else 'root'
RECURSIVE FirstSegment(_)
FirstSegment(s) ==
    IF s = <<>> \/ Head(s) = "/" THEN <<>>
    ELSE <<Head(s)>> \o FirstSegment(Tail(s))

CategoryOf(path) ==
    IF "/" \in Range(path) THEN FirstSegment(path) ELSE <<"r", "o", "o", "t">>

(***************************************************************************)
(* Inputs of the tool calls.                                               *)
(***************************************************************************)
SaveCategories == {<<"A">>, <<"b">>}
SaveNames == {<<"n">>}
SaveContents == {"c1", "c2", "big"}

\* Buffer.byteLength(content, 'utf-8') of the payload each content stands for
ByteLength(content) ==
    IF content = "big" THEN MAX_FILE_SIZE + 1
    ELSE IF content = "max" THEN MAX_FILE_SIZE
    ELSE 2

\* the category with the replacement made before the lowercasing
NormalizeCategoryReplaceFirst(category) ==
    [i \in 1..Len(category) |->
        IF InCategoryClass(category[i]) THEN category[i] ELSE "-"]

\* writer.save: category.toLowerCase().replace(/[^a-z0-9-]/g, '-')
NormalizeCategory(category) ==
    [i \in 1..Len(category) |->
        LET ch == ToLowerChar(category[i])
        IN IF InCategoryClass(ch) THEN ch ELSE "-"]

\* writer.save: the name, with .md appended unless it ends in .md, .yaml or .json
NormalizeName(name) ==
    IF \/ EndsWith(name, <<".", "m", "d">>)
       \/ EndsWith(name, <<".", "y", "a", "m", "l">>)
       \/ EndsWith(name, <<".", "j", "s", "o", "n">>)
    THEN name
    ELSE name \o <<".", "m", "d">>

ComposePath(category, name) ==
    NormalizeCategory(category) \o <<"/">> \o NormalizeName(name)

\* the paths the tool calls of the model name
UserPaths == {ComposePath(c, n) : c \in SaveCategories, n \in SaveNames}
RemotePaths == UserPaths \cup {INDEX_PATH}

(***************************************************************************)
(* MemoryCache: a Map in insertion order, as a sequence of entries.        *)
(***************************************************************************)
CacheKeys(c) == [i \in 1..Len(c) |-> c[i].path]

CacheHas(c, path) == \E i \in 1..Len(c) : c[i].path = path

\* the entry of a path the cache has
CacheGet(c, path) == c[CHOOSE i \in 1..Len(c) : c[i].path = path]

\* existing?.sha
CacheSha(c, path) == IF CacheHas(c, path) THEN CacheGet(c, path).sha ELSE NoSha

\* Map.set: an existing key keeps its position, a new key goes last
CacheSet(c, path, content, sha) ==
    LET e == [path |-> path, content |-> content, sha |-> sha]
    IN IF CacheHas(c, path)
       THEN [i \in 1..Len(c) |-> IF c[i].path = path THEN e ELSE c[i]]
       ELSE Append(c, e)

CacheDelete(c, path) == SelectSeq(c, LAMBDA e : e.path # path)

(***************************************************************************)
(* WriteQueue.  An item's timestamp is written and never read; it is left  *)
(* out of the items.                                                       *)
(***************************************************************************)
QueueHas(q, path) == \E i \in 1..Len(q) : q[i].path = path

QueueItem(q, path) == q[CHOOSE i \in 1..Len(q) : q[i].path = path]

\* Enqueue without the filter of the earlier item
EnqueueNoFilter(q, path, content, operation) ==
    Append(q, [path |-> path, content |-> content, operation |-> operation,
               retryCount |-> 0])

Enqueue(q, path, content, operation) ==
    Append(SelectSeq(q, LAMBDA item : item.path # path),
           [path |-> path, content |-> content, operation |-> operation,
            retryCount |-> 0])

Remove(q, path) == SelectSeq(q, LAMBDA item : item.path # path)

\* IncrementRetry with > MAX_RETRIES for >= MAX_RETRIES
IncrementRetryOffByOne(q, path) ==
    IF ~QueueHas(q, path) THEN [items |-> q, ret |-> FALSE]
    ELSE LET i == CHOOSE j \in 1..Len(q) : q[j].path = path
             bumped == [q EXCEPT ![i].retryCount = @ + 1]
         IN IF bumped[i].retryCount > MAX_RETRIES
            THEN [items |-> SelectSeq(bumped, LAMBDA item : item.path # path),
                  ret |-> FALSE]
            ELSE [items |-> bumped, ret |-> TRUE]

\* the items and the returned boolean
IncrementRetry(q, path) ==
    IF ~QueueHas(q, path) THEN [items |-> q, ret |-> FALSE]
    ELSE LET i == CHOOSE j \in 1..Len(q) : q[j].path = path
             bumped == [q EXCEPT ![i].retryCount = @ + 1]
         IN IF bumped[i].retryCount >= MAX_RETRIES
            THEN [items |-> SelectSeq(bumped, LAMBDA item : item.path # path),
                  ret |-> FALSE]
            ELSE [items |-> bumped, ret |-> TRUE]

(***************************************************************************)
(* index-gen: the manifest derived from the cache.                         *)
(***************************************************************************)
\* the files of the manifest: the paths sorted, each with its category
IndexFiles(paths) ==
    LET sorted == SortStrings(paths)
    IN [i \in 1..Len(sorted) |-> [path |-> sorted[i], category |-> CategoryOf(sorted[i])]]

IndexCategories(files) == SortStrings({files[i].category : i \in 1..Len(files)})

\* the IndexFile of a set of paths
Manifest(paths, time) ==
    LET files == IndexFiles(paths)
    IN [categories |-> IndexCategories(files), files |-> files, lastUpdated |-> time]

\* BuildIndex without the filter: index.json lists itself
BuildIndexWithSelf(c, time) == Manifest(Range(CacheKeys(c)), time)

\* updateIndex: the IndexFile of the cached paths other than index.json
BuildIndex(c, time) == Manifest(Range(CacheKeys(c)) \ {INDEX_PATH}, time)

\* handleListKnowledge's index when no index.json is cached: files in key order
FallbackIndex(c, time) ==
    LET keys == SelectSeq(CacheKeys(c), LAMBDA path : path # INDEX_PATH)
        files == [i \in 1..Len(keys) |-> [path |-> keys[i], category |-> CategoryOf(keys[i])]]
    IN [categories |-> IndexCategories(files), files |-> files, lastUpdated |-> time]

(***************************************************************************)
(* The remote store.  A file's revision token is the blob sha of its       *)
(* content; a put or delete is accepted when the expected token is the     *)
(* file's current one (none for a file that does not exist).  Any call may *)
(* also fail for a reason of its own (network, rate limit).                *)
(***************************************************************************)
ShaOf(content) == <<"sha", content>>

RemoteHas(r, path) == r[path] # <<>>

RemoteSha(r, path) == IF RemoteHas(r, path) THEN ShaOf(r[path][1]) ELSE NoSha

PutAccepted(r, path, sha) == sha = RemoteSha(r, path)

DeleteAccepted(r, path, sha) == RemoteHas(r, path) /\ sha = RemoteSha(r, path)

(***************************************************************************)
(* State.                                                                  *)
(***************************************************************************)
VARIABLES
    pc,             \* main(): "validate", "listTree", "fetch", "drain",
                    \* "drainIndex", "ready" (server.run, requests served), "dead"
    tree,           \* initialize: the tree entries still to fetch
    items,          \* drainQueue: the snapshot items still to process
    idxCall,        \* drainQueue: its updateIndex call in flight, <<>> if none
    cache,          \* MemoryCache.cache
    queue,          \* WriteQueue.items
    disk,           \* the content of QUEUE_FILE
    pendingWrites,  \* AsyncWriter.pendingWrites
    tasks,          \* the syncToGitHub / deleteFromGitHub calls past their guard
    reads,          \* the paths handleReadMemory is fetching on a cache miss
    remote,         \* the repository: path -> <<>> or <<content>>
    now,            \* the clock updateIndex stamps the manifest with
    ops,            \* tool calls served that changed state
    restarts,       \* process restarts so far
    last,           \* the step just taken and what it returned
    lastSaved,      \* path -> <<content of the last save since the last delete>>,
                    \* in the running process
    drained,        \* the items the current drain has processed, with outcomes
    intent,         \* path -> <<content of the last successful save>>, or <<>>
                    \* when the last successful operation was a delete (or none)
    quiet,          \* "no"; "quiet" once the remote store accepts every call
                    \* with a valid token and no save or delete is issued;
                    \* "restarted" once the process restarted after that
                    \* with no background task in flight, "lossy" when the
                    \* restart ended a task in flight
    diskFailed,     \* the last writeFileSync of QUEUE_FILE threw
    arg,            \* the arguments of the function call under study
    result,         \* what that call returned
    deleted,        \* path -> <<content removed by the last successful delete>>
                    \* in the running process, <<>> once the path is saved again
    rejected        \* the remote store has failed a put or delete of a memory file, or
                    \* an index put that carried the current token

vars == <<pc, tree, items, idxCall, cache, queue, disk, pendingWrites, tasks,
          reads, remote, now, ops, restarts, last, lastSaved, drained, intent,
          quiet, diskFailed, arg, result, deleted, rejected>>

\* the record of a step: the operation, its path, whether it succeeded, the
\* content it carried, and whether the queue held an item for the path before
Step(op, path, ok, val) ==
    [op |-> op, path |-> path, ok |-> ok, val |-> val, had |-> QueueHas(queue, path)]

\* JSON.stringify(this.items): the text of the file, item by item and field
\* by field
RECURSIVE Stringify(_)
Stringify(q) ==
    IF q = <<>> THEN <<>>
    ELSE <<Head(q).path, Head(q).content, Head(q).operation, Head(q).retryCount>>
         \o Stringify(Tail(q))

\* WriteQueue.load: JSON.parse of the file; no file, or a text that does not
\* parse, gives no items
Load(text) ==
    IF Len(text) % 4 # 0 THEN <<>>
    ELSE [i \in 1..(Len(text) \div 4) |->
            [path |-> text[4 * i - 3], content |-> text[4 * i - 2],
             operation |-> text[4 * i - 1], retryCount |-> text[4 * i]]]

\* WriteQueue.save: the file is rewritten with the items, or the write
\* throws, is logged, and the file keeps what it held
Persist(newItems) ==
    \/ disk' = Stringify(newItems) /\ diskFailed' = FALSE
    \/ Stringify(newItems) # disk /\ disk' = disk /\ diskFailed' = TRUE

\* WriteQueue.enqueue
QEnqueue(path, content, operation) ==
    /\ queue' = Enqueue(queue, path, content, operation)
    /\ Persist(queue')

\* WriteQueue.remove: saves only when an item was removed
QRemove(path) ==
    /\ queue' = Remove(queue, path)
    /\ IF Len(queue') < Len(queue) THEN Persist(queue')
       ELSE UNCHANGED <<disk, diskFailed>>

\* incrementRetry that writes the file only when it drops the item
QIncrementRetryNoSave(path) ==
    /\ queue' = IncrementRetry(queue, path).items
    /\ IF Len(queue') < Len(queue) THEN Persist(queue')
       ELSE UNCHANGED <<disk, diskFailed>>

\* WriteQueue.incrementRetry: saves unless the path is absent
QIncrementRetry(path) ==
    /\ queue' = IncrementRetry(queue, path).items
    /\ IF QueueHas(queue, path) THEN Persist(queue')
       ELSE UNCHANGED <<disk, diskFailed>>

\* the putFile call updateIndex issues: the manifest of the cache at call
\* time, and the cached manifest's token as the expected revision
IndexCall(c, time) ==
    <<[content |-> BuildIndex(c, time), sha |-> CacheSha(c, INDEX_PATH)]>>

Task(path, kind, content, sha) ==
    [path |-> path, kind |-> kind, at |-> "remote", content |-> content,
     sha |-> sha, index |-> <<>>]

\* a remote call may be rejected: always before the store turns reliable,
\* afterwards only when its revision token is not the current one
MayFail(valid) == quiet = "no" \/ ~valid

Init ==
    /\ pc = "validate"
    /\ tree = <<>>
    /\ items = <<>>
    /\ idxCall = <<>>
    /\ cache = <<>>
    /\ queue = <<>>
    /\ disk = <<>>
    /\ diskFailed = FALSE
    /\ arg = <<>>
    /\ result = <<>>
    /\ pendingWrites = {}
    /\ tasks = {}
    /\ reads = {}
    /\ remote = [p \in RemotePaths |-> <<>>]
    /\ now = 0
    /\ ops = 0
    /\ restarts = 0
    /\ last = [op |-> "start", path |-> <<>>, ok |-> TRUE, val |-> "", had |-> FALSE]
    /\ lastSaved = [p \in UserPaths |-> <<>>]
    /\ drained = <<>>
    /\ intent = [p \in UserPaths |-> <<>>]
    /\ quiet = "no"
    /\ deleted = [p \in UserPaths |-> <<>>]
    /\ rejected = FALSE

(***************************************************************************)
(* AsyncWriter.                                                            *)
(***************************************************************************)
\* syncToGitHub without the pendingWrites guard
SyncToGitHubNoGuard(path, content, sha) ==
    /\ pendingWrites' = pendingWrites \cup {path}
    /\ tasks' = tasks \cup {Task(path, "save", content, sha)}

\* syncToGitHub with one marker for all paths: a sync is launched only when
\* no other sync or delete is in flight
SyncToGitHubOneAtATime(path, content, sha) ==
    IF pendingWrites # {}
    THEN UNCHANGED <<pendingWrites, tasks>>
    ELSE /\ pendingWrites' = pendingWrites \cup {path}
         /\ tasks' = tasks \cup {Task(path, "save", content, sha)}

\* syncToGitHub up to its first await
SyncToGitHub(path, content, sha) ==
    IF path \in pendingWrites
    THEN UNCHANGED <<pendingWrites, tasks>>
    ELSE /\ pendingWrites' = pendingWrites \cup {path}
         /\ tasks' = tasks \cup {Task(path, "save", content, sha)}

\* deleteFromGitHub up to its first await
DeleteFromGitHub(path, sha) ==
    IF path \in pendingWrites
    THEN UNCHANGED <<pendingWrites, tasks>>
    ELSE /\ pendingWrites' = pendingWrites \cup {path}
         /\ tasks' = tasks \cup {Task(path, "delete", "", sha)}

\* Save that awaits its sync: the put is made before the call returns
SaveAwaitsSync(category, name, content) ==
    /\ pc = "ready"
    /\ ops < MaxOps
    /\ quiet = "no"
    /\ ByteLength(content) <= MAX_FILE_SIZE
    /\ LET path == ComposePath(category, name)
           sha == CacheSha(cache, path)
       IN /\ PutAccepted(remote, path, sha)
          /\ remote' = [remote EXCEPT ![path] = <<content>>]
          /\ cache' = CacheSet(cache, path, content, ShaOf(content))
          /\ ops' = ops + 1
          /\ lastSaved' = [lastSaved EXCEPT ![path] = <<content>>]
          /\ intent' = [intent EXCEPT ![path] = <<content>>]
          /\ deleted' = [deleted EXCEPT ![path] = <<>>]
          /\ last' = Step("save", path, TRUE, content)
    /\ UNCHANGED <<rejected, arg, result, quiet, pc, tree, items, idxCall,
                   queue, disk, diskFailed, pendingWrites, tasks, reads, now,
                   restarts, drained>>

\* Save served as soon as the process runs, before initialize has completed
SaveBeforeReady(category, name, content) ==
    /\ pc # "dead"
    /\ ops < MaxOps
    /\ quiet = "no"
    /\ IF ByteLength(content) > MAX_FILE_SIZE
       THEN /\ last' = Step("save", <<>>, FALSE, content)
            /\ UNCHANGED <<cache, pendingWrites, tasks, ops, lastSaved, intent, deleted>>
       ELSE LET path == ComposePath(category, name)
                sha == CacheSha(cache, path)
            IN /\ cache' = CacheSet(cache, path, content,
                                    IF sha = NoSha THEN PendingSha ELSE sha)
               /\ SyncToGitHub(path, content, sha)
               /\ ops' = ops + 1
               /\ lastSaved' = [lastSaved EXCEPT ![path] = <<content>>]
               /\ intent' = [intent EXCEPT ![path] = <<content>>]
               /\ deleted' = [deleted EXCEPT ![path] = <<>>]
               /\ last' = Step("save", path, TRUE, content)
    /\ UNCHANGED <<rejected, arg, result, quiet, pc, tree, items, idxCall,
                   queue, disk, diskFailed, reads, remote, now, restarts,
                   drained>>

\* Save that rejects content of exactly MAX_FILE_SIZE bytes too
SaveSizeOffByOne(category, name, content) ==
    /\ pc = "ready"
    /\ ops < MaxOps
    /\ quiet = "no"
    /\ IF ByteLength(content) >= MAX_FILE_SIZE
       THEN /\ last' = Step("save", <<>>, FALSE, content)
            /\ UNCHANGED <<cache, pendingWrites, tasks, ops, lastSaved, intent, deleted>>
       ELSE LET path == ComposePath(category, name)
                sha == CacheSha(cache, path)
            IN /\ cache' = CacheSet(cache, path, content,
                                    IF sha = NoSha THEN PendingSha ELSE sha)
               /\ SyncToGitHub(path, content, sha)
               /\ ops' = ops + 1
               /\ lastSaved' = [lastSaved EXCEPT ![path] = <<content>>]
               /\ intent' = [intent EXCEPT ![path] = <<content>>]
               /\ deleted' = [deleted EXCEPT ![path] = <<>>]
               /\ last' = Step("save", path, TRUE, content)
    /\ UNCHANGED <<rejected, arg, result, quiet, pc, tree, items, idxCall,
                   queue, disk, diskFailed, reads, remote, now, restarts,
                   drained>>

\* Save that stores the sentinel whatever token the record had
SaveAlwaysPending(category, name, content) ==
    /\ pc = "ready"
    /\ ops < MaxOps
    /\ quiet = "no"
    /\ IF ByteLength(content) > MAX_FILE_SIZE
       THEN /\ last' = Step("save", <<>>, FALSE, content)
            /\ UNCHANGED <<cache, pendingWrites, tasks, ops, lastSaved, intent, deleted>>
       ELSE LET path == ComposePath(category, name)
                sha == CacheSha(cache, path)
            IN /\ cache' = CacheSet(cache, path, content, PendingSha)
               /\ SyncToGitHub(path, content, sha)
               /\ ops' = ops + 1
               /\ lastSaved' = [lastSaved EXCEPT ![path] = <<content>>]
               /\ intent' = [intent EXCEPT ![path] = <<content>>]
               /\ deleted' = [deleted EXCEPT ![path] = <<>>]
               /\ last' = Step("save", path, TRUE, content)
    /\ UNCHANGED <<rejected, arg, result, quiet, pc, tree, items, idxCall,
                   queue, disk, diskFailed, reads, remote, now, restarts,
                   drained>>

\* handleSaveMemory -> writer.save
Save(category, name, content) ==
    /\ pc = "ready"
    /\ ops < MaxOps
    /\ quiet = "no"
    /\ IF ByteLength(content) > MAX_FILE_SIZE
       THEN /\ last' = Step("save", <<>>, FALSE, content)
            /\ UNCHANGED <<cache, pendingWrites, tasks, ops, lastSaved, intent, deleted>>
       ELSE LET path == ComposePath(category, name)
                sha == CacheSha(cache, path)
            IN /\ cache' = CacheSet(cache, path, content,
                                    IF sha = NoSha THEN PendingSha ELSE sha)
               /\ SyncToGitHub(path, content, sha)
               /\ ops' = ops + 1
               /\ lastSaved' = [lastSaved EXCEPT ![path] = <<content>>]
               /\ intent' = [intent EXCEPT ![path] = <<content>>]
               /\ deleted' = [deleted EXCEPT ![path] = <<>>]
               /\ last' = Step("save", path, TRUE, content)
    /\ UNCHANGED <<rejected, arg, result, quiet, pc, tree, items, idxCall,
                   queue, disk, diskFailed, reads, remote, now, restarts,
                   drained>>

\* Delete without the lookup: a path that is not cached is deleted remotely
\* all the same
DeleteNoLookup(path) ==
    /\ pc = "ready"
    /\ ops < MaxOps
    /\ quiet = "no"
    /\ cache' = CacheDelete(cache, path)
    /\ DeleteFromGitHub(path, CacheSha(cache, path))
    /\ ops' = ops + 1
    /\ lastSaved' = [lastSaved EXCEPT ![path] = <<>>]
    /\ intent' = [intent EXCEPT ![path] = <<>>]
    /\ deleted' = [deleted EXCEPT ![path] = <<"">>]
    /\ last' = Step("delete", path, TRUE, "")
    /\ UNCHANGED <<rejected, arg, result, quiet, pc, tree, items, idxCall,
                   queue, disk, diskFailed, reads, remote, now, restarts,
                   drained>>

\* handleDeleteMemory -> writer.delete
Delete(path) ==
    /\ pc = "ready"
    /\ ops < MaxOps
    /\ quiet = "no"
    /\ IF ~CacheHas(cache, path)
       THEN /\ last' = Step("delete", path, FALSE, "not found")
            /\ UNCHANGED <<cache, pendingWrites, tasks, ops, lastSaved, intent, deleted>>
       ELSE /\ cache' = CacheDelete(cache, path)
            /\ DeleteFromGitHub(path, CacheGet(cache, path).sha)
            /\ ops' = ops + 1
            /\ lastSaved' = [lastSaved EXCEPT ![path] = <<>>]
            /\ intent' = [intent EXCEPT ![path] = <<>>]
            /\ deleted' = [deleted EXCEPT ![path] = <<CacheGet(cache, path).content>>]
            /\ last' = Step("delete", path, TRUE, "")
    /\ UNCHANGED <<rejected, arg, result, quiet, pc, tree, items, idxCall,
                   queue, disk, diskFailed, reads, remote, now, restarts,
                   drained>>

\* syncToGitHub: putFile resolved
SyncPutOk(t) ==
    /\ t \in tasks /\ t.kind = "save" /\ t.at = "remote"
    /\ PutAccepted(remote, t.path, t.sha)
    /\ remote' = [remote EXCEPT ![t.path] = <<t.content>>]
    /\ cache' = CacheSet(cache, t.path, t.content, ShaOf(t.content))
    /\ tasks' = (tasks \ {t}) \cup
                {[t EXCEPT !.at = "index", !.index = IndexCall(cache', now)]}
    /\ now' = now + 1
    /\ last' = Step("syncPutOk", t.path, TRUE, t.content)
    /\ UNCHANGED <<deleted, rejected, arg, result, intent, quiet, pc, tree,
                   items, idxCall, queue, disk, diskFailed, pendingWrites,
                   reads, ops, restarts, lastSaved, drained>>

\* SyncPutFail that enqueues the cached content, not the content it tried
SyncPutFailFromCache(t) ==
    /\ t \in tasks /\ t.kind = "save" /\ t.at = "remote"
    /\ MayFail(PutAccepted(remote, t.path, t.sha))
    /\ QEnqueue(t.path,
                IF CacheHas(cache, t.path) THEN CacheGet(cache, t.path).content
                ELSE t.content, "save")
    /\ pendingWrites' = pendingWrites \ {t.path}
    /\ tasks' = tasks \ {t}
    /\ last' = Step("syncPutFail", t.path, FALSE, t.content)
    /\ rejected' = TRUE
    /\ UNCHANGED <<deleted, arg, result, intent, quiet, pc, tree, items,
                   idxCall, cache, reads, remote, now, ops, restarts,
                   lastSaved, drained>>

\* syncToGitHub: putFile rejected
SyncPutFail(t) ==
    /\ t \in tasks /\ t.kind = "save" /\ t.at = "remote"
    /\ MayFail(PutAccepted(remote, t.path, t.sha))
    /\ QEnqueue(t.path, t.content, "save")
    /\ pendingWrites' = pendingWrites \ {t.path}
    /\ tasks' = tasks \ {t}
    /\ last' = Step("syncPutFail", t.path, FALSE, t.content)
    /\ rejected' = TRUE
    /\ UNCHANGED <<deleted, arg, result, intent, quiet, pc, tree, items,
                   idxCall, cache, reads, remote, now, ops, restarts,
                   lastSaved, drained>>

\* deleteFromGitHub: deleteFile resolved
SyncDeleteOk(t) ==
    /\ t \in tasks /\ t.kind = "delete" /\ t.at = "remote"
    /\ DeleteAccepted(remote, t.path, t.sha)
    /\ remote' = [remote EXCEPT ![t.path] = <<>>]
    /\ tasks' = (tasks \ {t}) \cup
                {[t EXCEPT !.at = "index", !.index = IndexCall(cache, now)]}
    /\ now' = now + 1
    /\ last' = Step("syncDeleteOk", t.path, TRUE, "")
    /\ UNCHANGED <<deleted, rejected, arg, result, intent, quiet, pc, tree,
                   items, idxCall, cache, queue, disk, diskFailed,
                   pendingWrites, reads, ops, restarts, lastSaved, drained>>

\* SyncDeleteFail that leaves an earlier queue item of the path in place
SyncDeleteFailKeepsEarlier(t) ==
    /\ t \in tasks /\ t.kind = "delete" /\ t.at = "remote"
    /\ MayFail(DeleteAccepted(remote, t.path, t.sha))
    /\ IF QueueHas(queue, t.path) THEN UNCHANGED <<queue, disk, diskFailed>>
       ELSE QEnqueue(t.path, "", "delete")
    /\ pendingWrites' = pendingWrites \ {t.path}
    /\ tasks' = tasks \ {t}
    /\ last' = Step("syncDeleteFail", t.path, FALSE, "")
    /\ rejected' = TRUE
    /\ UNCHANGED <<deleted, arg, result, intent, quiet, pc, tree, items,
                   idxCall, cache, reads, remote, now, ops, restarts,
                   lastSaved, drained>>

\* deleteFromGitHub: deleteFile rejected
SyncDeleteFail(t) ==
    /\ t \in tasks /\ t.kind = "delete" /\ t.at = "remote"
    /\ MayFail(DeleteAccepted(remote, t.path, t.sha))
    /\ QEnqueue(t.path, "", "delete")
    /\ pendingWrites' = pendingWrites \ {t.path}
    /\ tasks' = tasks \ {t}
    /\ last' = Step("syncDeleteFail", t.path, FALSE, "")
    /\ rejected' = TRUE
    /\ UNCHANGED <<deleted, arg, result, intent, quiet, pc, tree, items,
                   idxCall, cache, reads, remote, now, ops, restarts,
                   lastSaved, drained>>

\* updateIndexSafe resolved in syncToGitHub / deleteFromGitHub, index written
SyncIndexOk(t) ==
    /\ t \in tasks /\ t.at = "index"
    /\ PutAccepted(remote, INDEX_PATH, t.index[1].sha)
    /\ remote' = [remote EXCEPT ![INDEX_PATH] = <<t.index[1].content>>]
    /\ cache' = CacheSet(cache, INDEX_PATH, t.index[1].content,
                         ShaOf(t.index[1].content))
    /\ QRemove(t.path)
    /\ pendingWrites' = pendingWrites \ {t.path}
    /\ tasks' = tasks \ {t}
    /\ last' = Step("syncIndexOk", t.path, TRUE, t.content)
    /\ UNCHANGED <<deleted, rejected, arg, result, intent, quiet, pc, tree,
                   items, idxCall, reads, now, ops, restarts, lastSaved,
                   drained>>

\* SyncIndexFail with an updateIndexSafe that rethrows: the failure reaches
\* the catch block of the sync, which enqueues the path
SyncIndexFailEnqueues(t) ==
    /\ t \in tasks /\ t.at = "index"
    /\ MayFail(PutAccepted(remote, INDEX_PATH, t.index[1].sha))
    /\ QEnqueue(t.path, t.content, t.kind)
    /\ pendingWrites' = pendingWrites \ {t.path}
    /\ tasks' = tasks \ {t}
    /\ last' = Step("syncIndexFail", t.path, TRUE, t.content)
    /\ rejected' = (rejected \/ PutAccepted(remote, INDEX_PATH, t.index[1].sha))
    /\ UNCHANGED <<deleted, arg, result, intent, quiet, pc, tree, items,
                   idxCall, cache, reads, remote, now, ops, restarts, lastSaved,
                   drained>>

\* updateIndexSafe resolved in syncToGitHub / deleteFromGitHub, index put
\* rejected (logged and swallowed)
SyncIndexFail(t) ==
    /\ t \in tasks /\ t.at = "index"
    /\ MayFail(PutAccepted(remote, INDEX_PATH, t.index[1].sha))
    /\ QRemove(t.path)
    /\ pendingWrites' = pendingWrites \ {t.path}
    /\ tasks' = tasks \ {t}
    /\ last' = Step("syncIndexFail", t.path, TRUE, t.content)
    /\ rejected' = (rejected \/ PutAccepted(remote, INDEX_PATH, t.index[1].sha))
    /\ UNCHANGED <<deleted, arg, result, intent, quiet, pc, tree, items,
                   idxCall, cache, reads, remote, now, ops, restarts,
                   lastSaved, drained>>

\* NextItem that rebuilds the index after every item
NextItemIndexEach ==
    /\ items' = Tail(items)
    /\ idxCall' = IndexCall(cache, now)
    /\ now' = now + 1
    /\ pc' = IF Tail(items) = <<>> THEN "drainIndex" ELSE pc

\* drainQueue, after an item: the next item, or the closing updateIndexSafe
NextItem ==
    /\ items' = Tail(items)
    /\ IF Tail(items) = <<>>
       THEN /\ pc' = "drainIndex"
            /\ idxCall' = IndexCall(cache, now)
            /\ now' = now + 1
       ELSE UNCHANGED <<pc, idxCall, now>>

Outcome(item, outcome) ==
    [path |-> item.path, content |-> item.content, operation |-> item.operation,
     retryCount |-> item.retryCount, outcome |-> outcome]

\* DrainStart without the early return: an empty snapshot still rebuilds
\* the index
DrainStartNoEarlyReturn ==
    /\ pc = "fetch" /\ tree = <<>>
    /\ items' = queue
    /\ IF queue = <<>>
       THEN /\ pc' = "drainIndex"
            /\ idxCall' = IndexCall(cache, now)
            /\ now' = now + 1
       ELSE /\ pc' = "drain"
            /\ UNCHANGED <<idxCall, now>>
    /\ last' = Step("drainStart", <<>>, TRUE, "")
    /\ UNCHANGED <<deleted, rejected, arg, result, intent, quiet, tree, cache,
                   queue, disk, diskFailed, pendingWrites, tasks, reads,
                   remote, ops, restarts, lastSaved, drained>>

\* drainQueue: the snapshot; an empty one returns at once
DrainStart ==
    /\ pc = "fetch" /\ tree = <<>>
    /\ items' = queue
    /\ pc' = IF queue = <<>> THEN "ready" ELSE "drain"
    /\ last' = Step("drainStart", <<>>, TRUE, "")
    /\ UNCHANGED <<deleted, rejected, arg, result, intent, quiet, tree,
                   idxCall, cache, queue, disk, diskFailed, pendingWrites,
                   tasks, reads, remote, now, ops, restarts, lastSaved, drained>>

\* DrainSaveOk that leaves the item in the queue
DrainSaveOkKeepsItem ==
    /\ pc = "drain" /\ items # <<>>
    /\ LET item == Head(items)
       IN /\ item.operation = "save"
          /\ PutAccepted(remote, item.path, CacheSha(cache, item.path))
          /\ remote' = [remote EXCEPT ![item.path] = <<item.content>>]
          /\ UNCHANGED <<queue, disk, diskFailed>>
          /\ drained' = Append(drained, Outcome(item, "ok"))
          /\ last' = Step("drainSaveOk", item.path, TRUE, item.content)
    /\ NextItem
    /\ UNCHANGED <<deleted, rejected, arg, result, intent, quiet, tree, cache,
                   pendingWrites, tasks, reads, ops, restarts, lastSaved>>

\* DrainSaveOk that puts the content of the cache record, when there is one
DrainSaveOkFromCache ==
    /\ pc = "drain" /\ items # <<>>
    /\ LET item == Head(items)
       IN /\ item.operation = "save"
          /\ PutAccepted(remote, item.path, CacheSha(cache, item.path))
          /\ remote' = [remote EXCEPT ![item.path] =
                            IF CacheHas(cache, item.path)
                            THEN <<CacheGet(cache, item.path).content>>
                            ELSE <<item.content>>]
          /\ QRemove(item.path)
          /\ drained' = Append(drained, Outcome(item, "ok"))
          /\ last' = Step("drainSaveOk", item.path, TRUE, item.content)
    /\ NextItem
    /\ UNCHANGED <<deleted, rejected, arg, result, intent, quiet, tree, cache,
                   pendingWrites, tasks, reads, ops, restarts, lastSaved>>

\* drainQueue: a 'save' item, putFile resolved
DrainSaveOk ==
    /\ pc = "drain" /\ items # <<>>
    /\ LET item == Head(items)
       IN /\ item.operation = "save"
          /\ PutAccepted(remote, item.path, CacheSha(cache, item.path))
          /\ remote' = [remote EXCEPT ![item.path] = <<item.content>>]
          /\ QRemove(item.path)
          /\ drained' = Append(drained, Outcome(item, "ok"))
          /\ last' = Step("drainSaveOk", item.path, TRUE, item.content)
    /\ NextItem
    /\ UNCHANGED <<deleted, rejected, arg, result, intent, quiet, tree, cache,
                   pendingWrites, tasks, reads, ops, restarts, lastSaved>>

\* drainQueue: a 'delete' item of a cached path, deleteFile resolved
DrainDeleteOk ==
    /\ pc = "drain" /\ items # <<>>
    /\ LET item == Head(items)
       IN /\ item.operation = "delete"
          /\ CacheHas(cache, item.path)
          /\ DeleteAccepted(remote, item.path, CacheGet(cache, item.path).sha)
          /\ remote' = [remote EXCEPT ![item.path] = <<>>]
          /\ QRemove(item.path)
          /\ drained' = Append(drained, Outcome(item, "ok"))
          /\ last' = Step("drainDeleteOk", item.path, TRUE, "")
    /\ NextItem
    /\ UNCHANGED <<deleted, rejected, arg, result, intent, quiet, tree, cache,
                   pendingWrites, tasks, reads, ops, restarts, lastSaved>>

\* drainQueue: a 'delete' item of a path that is not cached: no remote call
DrainDeleteSkip ==
    /\ pc = "drain" /\ items # <<>>
    /\ LET item == Head(items)
       IN /\ item.operation = "delete"
          /\ ~CacheHas(cache, item.path)
          /\ QRemove(item.path)
          /\ drained' = Append(drained, Outcome(item, "skip"))
          /\ last' = Step("drainDeleteSkip", item.path, TRUE, "")
    /\ NextItem
    /\ UNCHANGED <<deleted, rejected, arg, result, intent, quiet, tree, cache,
                   pendingWrites, tasks, reads, remote, ops, restarts,
                   lastSaved>>

\* DrainFail that removes the item instead of counting the retry
DrainFailRemoves ==
    /\ pc = "drain" /\ items # <<>>
    /\ LET item == Head(items)
       IN /\ item.operation = "delete" => CacheHas(cache, item.path)
          /\ MayFail(IF item.operation = "save"
                     THEN PutAccepted(remote, item.path, CacheSha(cache, item.path))
                     ELSE DeleteAccepted(remote, item.path, CacheSha(cache, item.path)))
          /\ QRemove(item.path)
          /\ drained' = Append(drained, Outcome(item, "fail"))
          /\ last' = Step("drainFail", item.path, FALSE, item.content)
    /\ NextItem
    /\ rejected' = TRUE
    /\ UNCHANGED <<deleted, arg, result, intent, quiet, tree, cache,
                   pendingWrites, tasks, reads, remote, ops, restarts,
                   lastSaved>>

\* drainQueue: the item's remote call rejected
DrainFail ==
    /\ pc = "drain" /\ items # <<>>
    /\ LET item == Head(items)
       IN /\ item.operation = "delete" => CacheHas(cache, item.path)
          /\ MayFail(IF item.operation = "save"
                     THEN PutAccepted(remote, item.path, CacheSha(cache, item.path))
                     ELSE DeleteAccepted(remote, item.path, CacheSha(cache, item.path)))
          /\ QIncrementRetry(item.path)
          /\ drained' = Append(drained, Outcome(item, "fail"))
          /\ last' = Step("drainFail", item.path, FALSE, item.content)
    /\ NextItem
    /\ rejected' = TRUE
    /\ UNCHANGED <<deleted, arg, result, intent, quiet, tree, cache,
                   pendingWrites, tasks, reads, remote, ops, restarts,
                   lastSaved>>

\* drainQueue: the closing updateIndexSafe, index written
DrainIndexOk ==
    /\ pc = "drainIndex"
    /\ PutAccepted(remote, INDEX_PATH, idxCall[1].sha)
    /\ remote' = [remote EXCEPT ![INDEX_PATH] = <<idxCall[1].content>>]
    /\ cache' = CacheSet(cache, INDEX_PATH, idxCall[1].content,
                         ShaOf(idxCall[1].content))
    /\ idxCall' = <<>>
    /\ pc' = "ready"
    /\ last' = Step("drainDone", <<>>, TRUE, "")
    /\ UNCHANGED <<deleted, rejected, arg, result, intent, quiet, tree, items,
                   queue, disk, diskFailed, pendingWrites, tasks, reads, now,
                   ops, restarts, lastSaved, drained>>

\* drainQueue: the closing updateIndexSafe, index put rejected
DrainIndexFail ==
    /\ pc = "drainIndex"
    /\ MayFail(PutAccepted(remote, INDEX_PATH, idxCall[1].sha))
    /\ idxCall' = <<>>
    /\ pc' = "ready"
    /\ last' = Step("drainDone", <<>>, FALSE, "")
    /\ rejected' = (rejected \/ PutAccepted(remote, INDEX_PATH, idxCall[1].sha))
    /\ UNCHANGED <<deleted, arg, result, intent, quiet, tree, items, cache,
                   queue, disk, diskFailed, pendingWrites, tasks, reads,
                   remote, now, ops, restarts, lastSaved, drained>>

(***************************************************************************)
(* MemoryMCPServer.                                                        *)
(***************************************************************************)
\* initialize: validateAccess true
ValidateOk ==
    /\ pc = "validate"
    /\ pc' = "listTree"
    /\ last' = Step("validate", <<>>, TRUE, "")
    /\ UNCHANGED <<deleted, rejected, arg, result, intent, quiet, tree, items,
                   idxCall, cache, queue, disk, diskFailed, pendingWrites,
                   tasks, reads, remote, now, ops, restarts, lastSaved, drained>>

\* initialize: validateAccess false, the error is fatal to main
ValidateFail ==
    /\ pc = "validate"
    /\ MayFail(TRUE)
    /\ pc' = "dead"
    /\ last' = Step("validate", <<>>, FALSE, "")
    /\ UNCHANGED <<deleted, rejected, arg, result, intent, quiet, tree, items,
                   idxCall, cache, queue, disk, diskFailed, pendingWrites,
                   tasks, reads, remote, now, ops, restarts, lastSaved, drained>>

\* initialize: listTree resolved with the blobs of the repository
ListTreeOk ==
    /\ pc = "listTree"
    /\ tree' = SortStrings({p \in RemotePaths : RemoteHas(remote, p)})
    /\ pc' = "fetch"
    /\ last' = Step("listTree", <<>>, TRUE, "")
    /\ UNCHANGED <<deleted, rejected, arg, result, intent, quiet, items,
                   idxCall, cache, queue, disk, diskFailed, pendingWrites,
                   tasks, reads, remote, now, ops, restarts, lastSaved, drained>>

\* initialize: listTree threw (not a 404 / 409), the error is fatal to main
ListTreeFail ==
    /\ pc = "listTree"
    /\ MayFail(TRUE)
    /\ pc' = "dead"
    /\ last' = Step("listTree", <<>>, FALSE, "")
    /\ UNCHANGED <<deleted, rejected, arg, result, intent, quiet, tree, items,
                   idxCall, cache, queue, disk, diskFailed, pendingWrites,
                   tasks, reads, remote, now, ops, restarts, lastSaved, drained>>

\* initialize: getFile of the next tree entry resolved
FetchOk ==
    /\ pc = "fetch" /\ tree # <<>>
    /\ LET path == Head(tree)
       IN /\ cache' = CacheSet(cache, path, remote[path][1], RemoteSha(remote, path))
          /\ last' = Step("fetch", path, TRUE, "")
    /\ tree' = Tail(tree)
    /\ UNCHANGED <<deleted, rejected, arg, result, intent, quiet, pc, items,
                   idxCall, queue, disk, diskFailed, pendingWrites, tasks,
                   reads, remote, now, ops, restarts, lastSaved, drained>>

\* a getFile failure that is not caught: the error is fatal to main
FetchFailAborts ==
    /\ pc = "fetch" /\ tree # <<>>
    /\ MayFail(TRUE)
    /\ pc' = "dead"
    /\ last' = Step("fetch", Head(tree), FALSE, "")
    /\ UNCHANGED <<deleted, rejected, arg, result, intent, quiet, tree, items,
                   idxCall, cache, queue, disk, diskFailed, pendingWrites,
                   tasks, reads, remote, now, ops, restarts, lastSaved, drained>>

\* initialize: getFile of the next tree entry threw, logged and skipped
FetchFail ==
    /\ pc = "fetch" /\ tree # <<>>
    /\ MayFail(TRUE)
    /\ tree' = Tail(tree)
    /\ last' = Step("fetch", Head(tree), FALSE, "")
    /\ UNCHANGED <<deleted, rejected, arg, result, intent, quiet, pc, items,
                   idxCall, cache, queue, disk, diskFailed, pendingWrites,
                   tasks, reads, remote, now, ops, restarts, lastSaved, drained>>

\* what handleListKnowledge returns
ListKnowledge ==
    IF CacheHas(cache, INDEX_PATH)
    THEN CacheGet(cache, INDEX_PATH).content
    ELSE FallbackIndex(cache, now)

\* handleListKnowledge: returns ListKnowledge, no state is written
List ==
    /\ pc = "ready"
    /\ UNCHANGED <<deleted, rejected, arg, result, intent, quiet, last, pc,
                   tree, items, idxCall, cache, queue, disk, diskFailed,
                   pendingWrites, tasks, reads, remote, now, ops, restarts,
                   lastSaved, drained>>

\* handleReadMemory, cache hit: returns the cached content, no state is written
ReadHit(path) ==
    /\ pc = "ready"
    /\ CacheHas(cache, path)
    /\ UNCHANGED <<deleted, rejected, arg, result, intent, quiet, last, pc,
                   tree, items, idxCall, cache, queue, disk, diskFailed,
                   pendingWrites, tasks, reads, remote, now, ops, restarts,
                   lastSaved, drained>>

\* handleReadMemory, cache miss: getFile called
ReadMiss(path) ==
    /\ pc = "ready"
    /\ ops < MaxOps
    /\ ~CacheHas(cache, path)
    /\ path \notin reads
    /\ reads' = reads \cup {path}
    /\ ops' = ops + 1
    /\ last' = Step("readMiss", path, TRUE, "")
    /\ UNCHANGED <<deleted, rejected, arg, result, intent, quiet, pc, tree,
                   items, idxCall, cache, queue, disk, diskFailed,
                   pendingWrites, tasks, remote, now, restarts, lastSaved,
                   drained>>

\* handleReadMemory, getFile resolved with the file: the cache is filled
ReadFill(path) ==
    /\ path \in reads
    /\ RemoteHas(remote, path)
    /\ cache' = CacheSet(cache, path, remote[path][1], RemoteSha(remote, path))
    /\ reads' = reads \ {path}
    /\ last' = Step("read", path, TRUE, remote[path][1])
    /\ UNCHANGED <<deleted, rejected, arg, result, intent, quiet, pc, tree,
                   items, idxCall, queue, disk, diskFailed, pendingWrites,
                   tasks, remote, now, ops, restarts, lastSaved, drained>>

\* handleReadMemory, getFile resolved with null (404) or threw
ReadNotFound(path) ==
    /\ path \in reads
    /\ MayFail(RemoteHas(remote, path))
    /\ reads' = reads \ {path}
    /\ last' = Step("read", path, FALSE, "not found")
    /\ UNCHANGED <<deleted, rejected, arg, result, intent, quiet, pc, tree,
                   items, idxCall, cache, queue, disk, diskFailed,
                   pendingWrites, tasks, remote, now, ops, restarts, lastSaved,
                   drained>>

\* the process ends and main runs again: the module-level cache and writer
\* are new, the queue is loaded from QUEUE_FILE
Restart ==
    /\ restarts < MaxRestarts
    /\ restarts' = restarts + 1
    /\ pc' = "validate"
    /\ tree' = <<>>
    /\ items' = <<>>
    /\ idxCall' = <<>>
    /\ cache' = <<>>
    /\ queue' = Load(disk)
    /\ diskFailed' = FALSE
    /\ pendingWrites' = {}
    /\ tasks' = {}
    /\ reads' = {}
    /\ lastSaved' = [p \in UserPaths |-> <<>>]
    /\ drained' = <<>>
    /\ deleted' = [p \in UserPaths |-> <<>>]
    /\ quiet' = IF quiet = "quiet"
                THEN IF tasks = {} THEN "restarted" ELSE "lossy"
                ELSE quiet
    /\ last' = Step("restart", <<>>, TRUE, "")
    /\ UNCHANGED <<rejected, arg, result, intent, disk, remote, now, ops>>

Next ==
    \/ ValidateOk
    \/ ValidateFail
    \/ ListTreeOk
    \/ ListTreeFail
    \/ FetchOk
    \/ FetchFail
    \/ DrainStart
    \/ DrainSaveOk
    \/ DrainDeleteOk
    \/ DrainDeleteSkip
    \/ DrainFail
    \/ DrainIndexOk
    \/ DrainIndexFail
    \/ \E c \in SaveCategories, n \in SaveNames, x \in SaveContents : Save(c, n, x)
    \/ \E p \in UserPaths : Delete(p)
    \/ \E t \in tasks : SyncPutOk(t)
    \/ \E t \in tasks : SyncPutFail(t)
    \/ \E t \in tasks : SyncDeleteOk(t)
    \/ \E t \in tasks : SyncDeleteFail(t)
    \/ \E t \in tasks : SyncIndexOk(t)
    \/ \E t \in tasks : SyncIndexFail(t)
    \/ List
    \/ \E p \in UserPaths : ReadHit(p)
    \/ \E p \in UserPaths : ReadMiss(p)
    \/ \E p \in UserPaths : ReadFill(p)
    \/ \E p \in UserPaths : ReadNotFound(p)
    \/ Restart

Spec == Init /\ [][Next]_vars

(***************************************************************************)
(* WriteQueue on its own: its methods called in any order, and the         *)
(* constructor's load after a restart.                                     *)
(***************************************************************************)
QueueOps == {[operation |-> "save", content |-> "c1"],
             [operation |-> "delete", content |-> ""]}

QueueInit ==
    /\ pc = "queue"
    /\ tree = <<>>
    /\ items = <<>>
    /\ idxCall = <<>>
    /\ cache = <<>>
    /\ queue = <<>>
    /\ disk = <<>>
    /\ diskFailed = FALSE
    /\ arg = <<>>
    /\ result = <<>>
    /\ pendingWrites = {}
    /\ tasks = {}
    /\ reads = {}
    /\ remote = [p \in RemotePaths |-> <<>>]
    /\ now = 0
    /\ ops = 0
    /\ restarts = 0
    /\ last = [op |-> "start", path |-> <<>>, ok |-> TRUE, val |-> "", had |-> FALSE]
    /\ lastSaved = [p \in UserPaths |-> <<>>]
    /\ drained = <<>>
    /\ intent = [p \in UserPaths |-> <<>>]
    /\ quiet = "no"
    /\ deleted = [p \in UserPaths |-> <<>>]
    /\ rejected = FALSE

ApiEnqueue(path, o) ==
    /\ QEnqueue(path, o.content, o.operation)
    /\ last' = Step("enqueue", path, TRUE, o.content)
    /\ UNCHANGED <<deleted, rejected, arg, result, intent, quiet, pc, tree,
                   items, idxCall, cache, pendingWrites, tasks, reads, remote,
                   now, ops, restarts, lastSaved, drained>>

ApiRemove(path) ==
    /\ QRemove(path)
    /\ last' = Step("remove", path, TRUE, "")
    /\ UNCHANGED <<deleted, rejected, arg, result, intent, quiet, pc, tree,
                   items, idxCall, cache, pendingWrites, tasks, reads, remote,
                   now, ops, restarts, lastSaved, drained>>

\* last.ok is the returned boolean
ApiIncrementRetry(path) ==
    /\ QIncrementRetry(path)
    /\ last' = Step("incrementRetry", path, IncrementRetry(queue, path).ret, "")
    /\ UNCHANGED <<deleted, rejected, arg, result, intent, quiet, pc, tree,
                   items, idxCall, cache, pendingWrites, tasks, reads, remote,
                   now, ops, restarts, lastSaved, drained>>

\* new WriteQueue() in a new process
ApiLoad ==
    /\ queue' = Load(disk)
    /\ diskFailed' = FALSE
    /\ last' = Step("load", <<>>, TRUE, "")
    /\ UNCHANGED <<deleted, rejected, arg, result, intent, quiet, pc, tree,
                   items, idxCall, cache, disk, pendingWrites, tasks, reads,
                   remote, now, ops, restarts, lastSaved, drained>>

QueueNext ==
    \/ \E p \in UserPaths, o \in QueueOps : ApiEnqueue(p, o)
    \/ \E p \in UserPaths : ApiRemove(p)
    \/ \E p \in UserPaths : ApiIncrementRetry(p)
    \/ ApiLoad

QueueSpec == QueueInit /\ [][QueueNext]_vars

(***************************************************************************)
(* The program with a remote store that turns reliable: from Quiesce on,   *)
(* every call with a valid revision token is accepted and no save or       *)
(* delete is issued.                                                       *)
(***************************************************************************)
Quiesce ==
    /\ quiet = "no"
    /\ quiet' = "quiet"
    /\ UNCHANGED <<deleted, rejected, arg, result, pc, tree, items, idxCall,
                   cache, queue, disk, diskFailed, pendingWrites, tasks, reads,
                   remote, now, ops, restarts, last, lastSaved, drained, intent>>

QuietNext == Next \/ Quiesce

QuietSpec == Init /\ [][QuietNext]_vars

(***************************************************************************)
(* One process start, from any queue file and repository an earlier        *)
(* session can have left: validate, list, fetch, drain, ready.             *)
(***************************************************************************)
StartItems ==
    {[path |-> p, content |-> o.content, operation |-> o.operation, retryCount |-> r] :
        p \in UserPaths, o \in QueueOps, r \in 0..(MAX_RETRIES - 1)}

StartQueues ==
    {<<>>} \cup {<<a>> : a \in StartItems}
           \cup {q \in {<<a, b>> : a \in StartItems, b \in StartItems} :
                    q[1].path # q[2].path}

StartRemotes ==
    {[p \in RemotePaths |->
        IF p # INDEX_PATH THEN f[p]
        ELSE IF hasIndex
             THEN <<Manifest({q \in UserPaths : f[q] # <<>>}, 0)>>
             ELSE <<>>] :
        f \in [UserPaths -> {<<>>, <<"c1">>, <<"c2">>}], hasIndex \in BOOLEAN}

StartInit ==
    /\ pc = "validate"
    /\ tree = <<>>
    /\ items = <<>>
    /\ idxCall = <<>>
    /\ cache = <<>>
    /\ queue \in StartQueues
    /\ disk = Stringify(queue)
    /\ diskFailed = FALSE
    /\ arg = <<>>
    /\ result = <<>>
    /\ pendingWrites = {}
    /\ tasks = {}
    /\ reads = {}
    /\ remote \in StartRemotes
    /\ now = 1
    /\ ops = 0
    /\ restarts = 0
    /\ last = [op |-> "start", path |-> <<>>, ok |-> TRUE, val |-> "", had |-> FALSE]
    /\ lastSaved = [p \in UserPaths |-> <<>>]
    /\ drained = <<>>
    /\ intent = [p \in UserPaths |-> <<>>]
    /\ quiet = "no"
    /\ deleted = [p \in UserPaths |-> <<>>]
    /\ rejected = FALSE

StartNext ==
    \/ ValidateOk
    \/ ValidateFail
    \/ ListTreeOk
    \/ ListTreeFail
    \/ FetchOk
    \/ FetchFail
    \/ DrainStart
    \/ DrainSaveOk
    \/ DrainDeleteOk
    \/ DrainDeleteSkip
    \/ DrainFail
    \/ DrainIndexOk
    \/ DrainIndexFail

StartSpec == StartInit /\ [][StartNext]_vars

(***************************************************************************)
(* Reads that miss the cache: one process started on a repository that     *)
(* holds files, some of which the warm-up failed to fetch, then reads and   *)
(* saves with their background syncs.                                      *)
(***************************************************************************)
ReadInit == StartInit /\ queue = <<>>

ReadNext ==
    \/ ValidateOk
    \/ ListTreeOk
    \/ FetchOk
    \/ FetchFail
    \/ DrainStart
    \/ \E c \in SaveCategories, n \in SaveNames, x \in SaveContents : Save(c, n, x)
    \/ \E t \in tasks : SyncPutOk(t)
    \/ \E t \in tasks : SyncPutFail(t)
    \/ \E t \in tasks : SyncIndexOk(t)
    \/ \E t \in tasks : SyncIndexFail(t)
    \/ \E p \in UserPaths : ReadHit(p)
    \/ \E p \in UserPaths : ReadMiss(p)
    \/ \E p \in UserPaths : ReadFill(p)
    \/ \E p \in UserPaths : ReadNotFound(p)

ReadSpec == ReadInit /\ [][ReadNext]_vars

(***************************************************************************)
(* A hung remote call: one process in which the remote calls of the        *)
(* background task of HungPath never return, while the remote calls of     *)
(* every other task do return (weak fairness), with either outcome.        *)
(***************************************************************************)
HungPath == <<"a", "/", "n", ".", "m", "d">>

\* a remote call of task t returns
Returns(t) ==
    \/ SyncPutOk(t)
    \/ SyncPutFail(t)
    \/ SyncDeleteOk(t)
    \/ SyncDeleteFail(t)
    \/ SyncIndexOk(t)
    \/ SyncIndexFail(t)

HangNext ==
    \/ ValidateOk
    \/ ListTreeOk
    \/ DrainStart
    \/ \E c \in SaveCategories, n \in SaveNames, x \in SaveContents : Save(c, n, x)
    \/ \E p \in UserPaths : Delete(p)
    \/ \E t \in tasks : t.path # HungPath /\ SyncPutOk(t)
    \/ \E t \in tasks : t.path # HungPath /\ SyncPutFail(t)
    \/ \E t \in tasks : t.path # HungPath /\ SyncDeleteOk(t)
    \/ \E t \in tasks : t.path # HungPath /\ SyncDeleteFail(t)
    \/ \E t \in tasks : t.path # HungPath /\ SyncIndexOk(t)
    \/ \E t \in tasks : t.path # HungPath /\ SyncIndexFail(t)

HangSpec ==
    /\ Init
    /\ [][HangNext]_vars
    /\ WF_vars(\E t \in tasks : t.path # HungPath /\ Returns(t))

(***************************************************************************)
(* Saves at the size limit: one process, contents of 2 bytes, of exactly   *)
(* MAX_FILE_SIZE bytes and of one byte more.                               *)
(***************************************************************************)
SizeContents == {"c1", "max", "big"}

SizeNext ==
    \/ ValidateOk
    \/ ListTreeOk
    \/ DrainStart
    \/ \E c \in SaveCategories, n \in SaveNames, x \in SizeContents : Save(c, n, x)
    \/ \E t \in tasks : SyncPutOk(t)
    \/ \E t \in tasks : SyncPutFail(t)
    \/ \E t \in tasks : SyncIndexOk(t)
    \/ \E t \in tasks : SyncIndexFail(t)

SizeSpec == Init /\ [][SizeNext]_vars

(***************************************************************************)
(* The functions of the code taken alone: a process with nothing cached    *)
(* and nothing queued, in which one function at a time is called on        *)
(* arguments from a bounded set.                                           *)
(***************************************************************************)
Fresh(stage) ==
    /\ pc = stage
    /\ tree = <<>>
    /\ items = <<>>
    /\ idxCall = <<>>
    /\ cache = <<>>
    /\ queue = <<>>
    /\ disk = <<>>
    /\ diskFailed = FALSE
    /\ arg = <<>>
    /\ result = <<>>
    /\ pendingWrites = {}
    /\ tasks = {}
    /\ reads = {}
    /\ remote = [p \in RemotePaths |-> <<>>]
    /\ now = 0
    /\ ops = 0
    /\ restarts = 0
    /\ last = [op |-> "start", path |-> <<>>, ok |-> TRUE, val |-> "", had |-> FALSE]
    /\ lastSaved = [p \in UserPaths |-> <<>>]
    /\ drained = <<>>
    /\ intent = [p \in UserPaths |-> <<>>]
    /\ quiet = "no"
    /\ deleted = [p \in UserPaths |-> <<>>]
    /\ rejected = FALSE

\* the categories and names given to save
MaxCategoryLen == 2

PathChars == {"A", "Z", "b", "1", "-", "!", " ", "/"}

PathCategories ==
    UNION {[1..k -> PathChars] : k \in 0..MaxCategoryLen}

PathNames ==
    {<<"n">>, <<"n", ".", "m", "d">>, <<"d", ".", "j", "s", "o", "n">>,
     <<"c", ".", "y", "a", "m", "l">>, <<"N", ".", "M", "D">>, <<"m", "d">>,
     <<".", "m", "d">>, <<>>, <<"a", ".", "t", "x", "t">>,
     <<"n", ".", "m", "d", "x">>}

\* writer.save, up to the path it stores the file at
Compose(category, name) ==
    /\ pc = "path"
    /\ arg = <<>>
    /\ arg' = <<category, name>>
    /\ result' = ComposePath(category, name)
    /\ UNCHANGED <<deleted, rejected, pc, tree, items, idxCall, cache, queue,
                   disk, diskFailed, pendingWrites, tasks, reads, remote, now,
                   ops, restarts, last, lastSaved, drained, intent, quiet>>

PathNext == \E c \in PathCategories, n \in PathNames : Compose(c, n)

PathSpec == Fresh("path") /\ [][PathNext]_vars

(***************************************************************************)
(* MemoryCache.search over a cache of files with text content.             *)
(***************************************************************************)
\* String.prototype.indexOf, 0-based, -1 when absent
IndexOf(s, q) ==
    LET hits == {i \in 0..(Len(s) - Len(q)) : SubSeq(s, i + 1, i + Len(q)) = q}
    IN IF hits = {} THEN -1
       ELSE CHOOSE i \in hits : \A j \in hits : i <= j

\* String.prototype.includes
Includes(s, q) == IndexOf(s, q) # -1

\* String.prototype.slice(from, to) for 0 <= from <= to <= length
Slice(s, from, to) == SubSeq(s, from + 1, to)

Ellipsis == <<".", ".", ".">>

Max(a, b) == IF a >= b THEN a ELSE b

Min(a, b) == IF a <= b THEN a ELSE b

\* extractSnippet with the trailing marker also when the window reaches the
\* end of the content
ExtractSnippetTrailAlways(content, query, given, index) ==
    LET maxLength == 150
        matchIndex == IF given THEN index
                      ELSE IndexOf(ToLowerCase(content), ToLowerCase(query))
    IN IF Len(content) <= maxLength THEN content
       ELSE IF matchIndex = -1 THEN Slice(content, 0, maxLength) \o Ellipsis
       ELSE LET snippetStart == Max(0, matchIndex - 50)
                snippetEnd == Min(Len(content), matchIndex + Len(query) + 100)
            IN (IF snippetStart > 0 THEN Ellipsis ELSE <<>>)
               \o Slice(content, snippetStart, snippetEnd)
               \o (IF snippetEnd <= Len(content) THEN Ellipsis ELSE <<>>)

\* extractSnippet(content, query, matchIndex?): given is FALSE when the
\* third argument is left out
ExtractSnippet(content, query, given, index) ==
    LET maxLength == 150
        matchIndex == IF given THEN index
                      ELSE IndexOf(ToLowerCase(content), ToLowerCase(query))
    IN IF Len(content) <= maxLength THEN content
       ELSE IF matchIndex = -1 THEN Slice(content, 0, maxLength) \o Ellipsis
       ELSE LET snippetStart == Max(0, matchIndex - 50)
                snippetEnd == Min(Len(content), matchIndex + Len(query) + 100)
            IN (IF snippetStart > 0 THEN Ellipsis ELSE <<>>)
               \o Slice(content, snippetStart, snippetEnd)
               \o (IF snippetEnd < Len(content) THEN Ellipsis ELSE <<>>)

\* search without the continue after a path match
RECURSIVE SearchNoContinue(_, _)
SearchNoContinue(c, query) ==
    IF c = <<>> THEN <<>>
    ELSE LET entry == Head(c)
             queryLower == ToLowerCase(query)
             matchIndex == IndexOf(ToLowerCase(entry.content), queryLower)
         IN (IF Includes(ToLowerCase(entry.path), queryLower)
             THEN <<[path |-> entry.path,
                     snippet |-> ExtractSnippet(entry.content, query, FALSE, -1)]>>
             ELSE <<>>)
            \o (IF matchIndex # -1
                THEN <<[path |-> entry.path,
                        snippet |-> ExtractSnippet(entry.content, query, TRUE,
                                                   matchIndex)]>>
                ELSE <<>>)
            \o SearchNoContinue(Tail(c), query)

\* MemoryCache.search: the results, entry by entry in Map order
RECURSIVE Search(_, _)
Search(c, query) ==
    IF c = <<>> THEN <<>>
    ELSE LET entry == Head(c)
             queryLower == ToLowerCase(query)
             matchIndex == IndexOf(ToLowerCase(entry.content), queryLower)
         IN (IF Includes(ToLowerCase(entry.path), queryLower)
             THEN <<[path |-> entry.path,
                     snippet |-> ExtractSnippet(entry.content, query, FALSE, -1)]>>
             ELSE IF matchIndex # -1
             THEN <<[path |-> entry.path,
                     snippet |-> ExtractSnippet(entry.content, query, TRUE,
                                                matchIndex)]>>
             ELSE <<>>)
            \o Search(Tail(c), query)

\* the files searched: at most MaxSearchFiles of them
MaxSearchFiles == 2

Pad(n) == [i \in 1..n |-> "x"]

SearchPaths ==
    {<<"a", "b", "/", "n", ".", "m", "d">>, <<"c", "/", "N", ".", "m", "d">>,
     <<"d", "/", "e", ".", "m", "d">>}

SearchContents ==
    {<<"a", "B">>, <<"q">>,
     Pad(148) \o <<"a", "B">>,
     Pad(149) \o <<"a", "B">>,
     Pad(100) \o <<"a", "B">> \o Pad(198),
     <<"a", "B">> \o Pad(200),
     Pad(50) \o <<"a", "B">> \o Pad(100),
     Pad(51) \o <<"a", "B">> \o Pad(101),
     Pad(200)}

SearchQueries ==
    {<<"a", "b">>, <<"A", "B">>, <<"b">>, <<"x">>, <<"n">>, <<"z", "q">>, <<>>}

SearchEntries ==
    {[path |-> p, content |-> x, sha |-> ShaOf(x)] :
        p \in SearchPaths, x \in SearchContents}

\* the caches of up to MaxSearchFiles entries with different paths
RECURSIVE SearchCaches(_)
SearchCaches(n) ==
    IF n = 0 THEN {<<>>}
    ELSE LET shorter == SearchCaches(n - 1)
             longest == {c \in shorter : Len(c) = n - 1}
         IN shorter \cup
            {Append(x[1], x[2]) :
                x \in {y \in longest \X SearchEntries :
                          \A i \in 1..Len(y[1]) : y[1][i].path # y[2].path}}

SearchInit ==
    /\ pc = "search"
    /\ tree = <<>>
    /\ items = <<>>
    /\ idxCall = <<>>
    /\ cache \in SearchCaches(MaxSearchFiles)
    /\ queue = <<>>
    /\ disk = <<>>
    /\ diskFailed = FALSE
    /\ arg = <<>>
    /\ result = <<>>
    /\ pendingWrites = {}
    /\ tasks = {}
    /\ reads = {}
    /\ remote = [p \in RemotePaths |-> <<>>]
    /\ now = 0
    /\ ops = 0
    /\ restarts = 0
    /\ last = [op |-> "start", path |-> <<>>, ok |-> TRUE, val |-> "", had |-> FALSE]
    /\ lastSaved = [p \in UserPaths |-> <<>>]
    /\ drained = <<>>
    /\ intent = [p \in UserPaths |-> <<>>]
    /\ quiet = "no"
    /\ deleted = [p \in UserPaths |-> <<>>]
    /\ rejected = FALSE

\* handleSearchMemory -> cache.search
SearchMemory(query) ==
    /\ pc = "search"
    /\ arg = <<>>
    /\ arg' = <<query>>
    /\ result' = Search(cache, query)
    /\ UNCHANGED <<deleted, rejected, pc, tree, items, idxCall, cache, queue,
                   disk, diskFailed, pendingWrites, tasks, reads, remote, now,
                   ops, restarts, last, lastSaved, drained, intent, quiet>>

SearchNext == \E q \in SearchQueries : SearchMemory(q)

SearchSpec == SearchInit /\ [][SearchNext]_vars

(***************************************************************************)
(* updateIndex taken alone: one call on a cache of files in any insertion  *)
(* order, with or without a cached index.json, against a repository whose  *)
(* index.json is absent, the cached one, or another one.                   *)
(***************************************************************************)
MaxIndexFiles == 3

IndexPaths ==
    {<<"b", "/", "x">>, <<"a", "/", "y">>, <<"a", "/", "b", "/", "z">>, <<"c">>}

IndexEntries == {[path |-> p, content |-> "c1", sha |-> ShaOf("c1")] : p \in IndexPaths}

\* the caches of up to n files with different paths
RECURSIVE FileCaches(_)
FileCaches(n) ==
    IF n = 0 THEN {<<>>}
    ELSE LET shorter == FileCaches(n - 1)
             longest == {c \in shorter : Len(c) = n - 1}
         IN shorter \cup
            {Append(x[1], x[2]) :
                x \in {y \in longest \X IndexEntries :
                          \A i \in 1..Len(y[1]) : y[1][i].path # y[2].path}}

\* an index.json record left by an earlier rebuild
OldIndex ==
    [path |-> INDEX_PATH, content |-> Manifest({}, 0), sha |-> ShaOf(Manifest({}, 0))]

IndexCaches ==
    LET files == FileCaches(MaxIndexFiles)
    IN files \cup {Append(c, OldIndex) : c \in files}
             \cup {<<OldIndex>> \o c : c \in files}

IndexInit ==
    /\ pc = "index"
    /\ tree = <<>>
    /\ items = <<>>
    /\ idxCall = <<>>
    /\ cache \in IndexCaches
    /\ queue = <<>>
    /\ disk = <<>>
    /\ diskFailed = FALSE
    /\ arg = <<>>
    /\ result = <<>>
    /\ pendingWrites = {}
    /\ tasks = {}
    /\ reads = {}
    /\ remote \in {[p \in RemotePaths |-> IF p = INDEX_PATH THEN r ELSE <<>>] :
                      r \in {<<>>, <<Manifest({}, 0)>>, <<Manifest(IndexPaths, 0)>>}}
    /\ now = 1
    /\ ops = 0
    /\ restarts = 0
    /\ last = [op |-> "start", path |-> <<>>, ok |-> TRUE, val |-> "", had |-> FALSE]
    /\ lastSaved = [p \in UserPaths |-> <<>>]
    /\ drained = <<>>
    /\ intent = [p \in UserPaths |-> <<>>]
    /\ quiet = "no"
    /\ deleted = [p \in UserPaths |-> <<>>]
    /\ rejected = FALSE

\* updateIndex up to its await: the manifest of the cache and the cached token
UpdateIndex ==
    /\ pc = "index"
    /\ idxCall' = IndexCall(cache, now)
    /\ now' = now + 1
    /\ pc' = "indexPut"
    /\ UNCHANGED <<deleted, rejected, arg, result, tree, items, cache, queue,
                   disk, diskFailed, pendingWrites, tasks, reads, remote, ops,
                   restarts, last, lastSaved, drained, intent, quiet>>

\* updateIndex: putFile resolved, the record of index.json set
UpdateIndexOk ==
    /\ pc = "indexPut"
    /\ PutAccepted(remote, INDEX_PATH, idxCall[1].sha)
    /\ remote' = [remote EXCEPT ![INDEX_PATH] = <<idxCall[1].content>>]
    /\ cache' = CacheSet(cache, INDEX_PATH, idxCall[1].content,
                         ShaOf(idxCall[1].content))
    /\ result' = <<"ok">>
    /\ pc' = "done"
    /\ UNCHANGED <<deleted, rejected, arg, tree, items, idxCall, queue, disk,
                   diskFailed, pendingWrites, tasks, reads, now, ops, restarts,
                   last, lastSaved, drained, intent, quiet>>

\* updateIndex: putFile rejected, the error logged and rethrown
UpdateIndexFail ==
    /\ pc = "indexPut"
    /\ MayFail(PutAccepted(remote, INDEX_PATH, idxCall[1].sha))
    /\ result' = <<"thrown">>
    /\ pc' = "done"
    /\ UNCHANGED <<deleted, rejected, arg, tree, items, idxCall, cache, queue,
                   disk, diskFailed, pendingWrites, tasks, reads, remote, now,
                   ops, restarts, last, lastSaved, drained, intent, quiet>>

IndexNext ==
    \/ UpdateIndex
    \/ UpdateIndexOk
    \/ UpdateIndexFail

IndexSpec == IndexInit /\ [][IndexNext]_vars

(***************************************************************************)
(* Properties.                                                             *)
(***************************************************************************)
InFiles(index, path) == \E i \in 1..Len(index.files) : index.files[i].path = path

InCategories(index, category) ==
    \E i \in 1..Len(index.categories) : index.categories[i] = category

ItemsOf(q, path) == {i \in 1..Len(q) : q[i].path = path}

\* C1: read-your-writes: every path saved and not deleted since (in the
\* running process) is cached with the content of the most recent save of
\* it, whatever background syncs have completed in between.
C1_ReadYourWrites ==
    \A p \in UserPaths :
        lastSaved[p] # <<>> =>
            /\ CacheHas(cache, p)
            /\ CacheGet(cache, p).content = lastSaved[p][1]

\* C2: non-blocking writes: a save returns success exactly when its content
\* is within the size limit, and then the cache holds the content at the
\* returned path; a delete returns success exactly when the path was cached,
\* and then the path has left the cache; in both the call returns in the
\* step that updates the cache, with no remote call made or awaited.
C2_NonBlockingWrites ==
    [][/\ last'.op = "save" =>
            /\ last'.ok <=> ByteLength(last'.val) <= MAX_FILE_SIZE
            /\ last'.ok =>
                /\ last'.path \in UserPaths
                /\ CacheHas(cache', last'.path)
                /\ CacheGet(cache', last'.path).content = last'.val
                /\ remote' = remote
       /\ last'.op = "delete" =>
            /\ last'.ok <=> CacheHas(cache, last'.path)
            /\ last'.ok => ~CacheHas(cache', last'.path) /\ remote' = remote
      ]_vars

\* a save has returned success while its sync has not yet reached the remote
C2_Witness ==
    /\ last.op = "save" /\ last.ok
    /\ \E t \in tasks : t.path = last.path /\ t.at = "remote" /\ t.content = last.val
    /\ ~RemoteHas(remote, last.path)

\* C3: when the remote put of a save's background sync fails, the queue then
\* holds exactly one item for the path: operation "save", retryCount 0, and
\* the content that sync tried to write.
C3_FailedSyncQueued ==
    last.op = "syncPutFail" =>
        /\ Cardinality(ItemsOf(queue, last.path)) = 1
        /\ QueueItem(queue, last.path).operation = "save"
        /\ QueueItem(queue, last.path).retryCount = 0
        /\ QueueItem(queue, last.path).content = last.val

\* a sync failed after a later save had already changed the cached content
C3_Witness ==
    /\ last.op = "syncPutFail"
    /\ CacheHas(cache, last.path)
    /\ CacheGet(cache, last.path).content # last.val

\* C4 as claimed: once the remote store has turned reliable, no save or
\* delete is issued, the background tasks in flight have finished and the
\* startup drain of the one restart after that has completed, the queue is
\* empty and the remote store holds, for every path, the content of the
\* last successful save (no file after a delete).
C4_EventuallyConsistent ==
    (quiet = "restarted" /\ restarts = 1 /\ pc = "ready") =>
        /\ queue = <<>>
        /\ \A p \in UserPaths : remote[p] = intent[p]

\* C4 as amended: once the remote store has turned reliable, no save or
\* delete is issued, and a restart's startup drain has completed, the queue
\* is empty and every item that drain processed is applied to the remote
\* store: the content of a "save" item is the file, the file of a "delete"
\* item is gone.
C4_QueueDrainedAfterRestart ==
    (quiet \in {"restarted", "lossy"} /\ pc = "ready") =>
        /\ queue = <<>>
        /\ \A i \in 1..Len(drained) :
            /\ drained[i].outcome \in {"ok", "skip"}
            /\ drained[i].operation = "save" =>
                   remote[drained[i].path] = <<drained[i].content>>
            /\ drained[i].operation = "delete" => remote[drained[i].path] = <<>>

\* the startup drain after the store turned reliable replayed a queued item
C4_Witness ==
    /\ quiet = "restarted" /\ pc = "ready"
    /\ Len(drained) > 0

\* C5: the queue holds at most one item per path, also after an enqueue for
\* a path that already had an item.
C5_QueueUnique ==
    \A i, j \in 1..Len(queue) : queue[i].path = queue[j].path => i = j

\* a failed sync enqueued a path that already had an item
C5_Witness ==
    /\ last.op \in {"syncPutFail", "syncDeleteFail"}
    /\ last.had
    /\ QueueHas(queue, last.path)

\* C6: every queued item has retryCount < 3; incrementRetry returns true
\* exactly when the item is queued afterwards; an increment that reaches 3
\* removes the item and returns false, a smaller one stores the count; for
\* an absent path it returns false and leaves the queue as it was.
C6_RetryBound ==
    [][/\ \A i \in 1..Len(queue') : queue'[i].retryCount < 3
       /\ last'.op = "incrementRetry" =>
            /\ last'.ok <=> QueueHas(queue', last'.path)
            /\ ~QueueHas(queue, last'.path) => (queue' = queue /\ ~last'.ok)
            /\ QueueHas(queue, last'.path) =>
                IF QueueItem(queue, last'.path).retryCount + 1 = 3
                THEN ~QueueHas(queue', last'.path) /\ ~last'.ok
                ELSE /\ QueueHas(queue', last'.path)
                     /\ QueueItem(queue', last'.path).retryCount =
                            QueueItem(queue, last'.path).retryCount + 1
      ]_vars

\* an incrementRetry dropped the item it was called for
C6_Witness ==
    /\ last.op = "incrementRetry"
    /\ last.had
    /\ ~last.ok
    /\ ~QueueHas(queue, last.path)

\* C7: when drainQueue finishes, every snapshot item whose remote call
\* succeeded is absent from the queue, and every item whose remote call
\* failed is queued with its retryCount one higher, or absent when that
\* count reached 3.
C7_DrainOutcome ==
    last.op = "drainDone" =>
        /\ items = <<>>
        /\ \A i \in 1..Len(drained) :
            LET d == drained[i]
            IN /\ d.outcome = "ok" => ~QueueHas(queue, d.path)
               /\ d.outcome = "fail" =>
                    IF d.retryCount + 1 >= 3
                    THEN ~QueueHas(queue, d.path)
                    ELSE /\ QueueHas(queue, d.path)
                         /\ QueueItem(queue, d.path) =
                                [path |-> d.path, content |-> d.content,
                                 operation |-> d.operation,
                                 retryCount |-> d.retryCount + 1]

\* a drain finished in which one item succeeded, one failed and stayed, or
\* one failed for the third time
C7_Witness ==
    /\ last.op = "drainDone"
    /\ \E i, j \in 1..Len(drained) :
        /\ drained[i].outcome = "ok"
        /\ drained[j].outcome = "fail"
        /\ drained[j].retryCount = 2

\* C8: drainQueue on an empty queue returns at once: no remote call, no
\* index rebuild, and the cache, the queue and pendingWrites as they were.
C8_EmptyDrainNoOp ==
    [][(last'.op = "drainStart" /\ queue = <<>>) =>
            /\ pc' = "ready"
            /\ idxCall' = <<>>
            /\ items' = <<>>
            /\ UNCHANGED <<cache, queue, disk, diskFailed, pendingWrites, tasks, remote, now>>
      ]_vars

\* an empty queue was drained in a process whose cache holds files
C8_Witness ==
    /\ last.op = "drainStart"
    /\ pc = "ready"
    /\ queue = <<>>
    /\ cache # <<>>

\* C9: a list right after a successful save of c/n includes category c and
\* file c/n.
C9_ListAfterSave ==
    (last.op = "save" /\ last.ok) =>
        /\ InFiles(ListKnowledge, last.path)
        /\ InCategories(ListKnowledge, CategoryOf(last.path))

\* C10: a list right after a successful delete of a path no longer includes
\* the path.
C10_ListAfterDelete ==
    (last.op = "delete" /\ last.ok) => ~InFiles(ListKnowledge, last.path)

\* C11: delete of a path that is not cached returns failure "not found",
\* starts no background delete, makes no remote call, and leaves the cache,
\* the queue, the queue file and pendingWrites as they were.
C11_DeleteUnknown ==
    [][(last'.op = "delete" /\ ~CacheHas(cache, last'.path)) =>
            /\ ~last'.ok
            /\ last'.val = "not found"
            /\ UNCHANGED <<cache, queue, disk, pendingWrites, tasks, remote>>
      ]_vars

\* a delete of an uncached path was refused while other files are cached and
\* a failed write is queued
C11_Witness ==
    /\ last.op = "delete"
    /\ ~last.ok
    /\ ~CacheHas(cache, last.path)
    /\ cache # <<>>
    /\ queue # <<>>

\* C12: a save of more than 1048576 bytes returns failure, starts no
\* background sync and leaves the cache, the queue, the queue file and
\* pendingWrites as they were; a save of exactly 1048576 bytes succeeds and
\* is cached.
C12_OversizedSave ==
    [][last'.op = "save" =>
            /\ ByteLength(last'.val) > 1048576 =>
                /\ ~last'.ok
                /\ UNCHANGED <<cache, queue, disk, pendingWrites, tasks, remote>>
            /\ ByteLength(last'.val) = 1048576 =>
                /\ last'.ok
                /\ CacheHas(cache', last'.path)
                /\ CacheGet(cache', last'.path).content = last'.val
      ]_vars

\* an oversized save was refused after a save of exactly the limit was
\* accepted
C12_Witness ==
    /\ last.op = "save"
    /\ ~last.ok
    /\ ByteLength(last.val) = MAX_FILE_SIZE + 1
    /\ \E i \in 1..Len(cache) : ByteLength(cache[i].content) = MAX_FILE_SIZE

\* C13: whenever the last write of the queue file succeeded (so after any
\* sequence of enqueue, remove and incrementRetry whose writes all
\* succeed), the file parses to the in-memory items, and a queue constructed
\* from it in a new process holds the same items (path, content, operation,
\* retryCount) in the same order.
C13_QueueDurable ==
    [][/\ ~diskFailed' => Load(disk') = queue'
       /\ (last'.op = "load" /\ last' # last /\ ~diskFailed) => queue' = queue
      ]_vars

\* two items, one of them retried, are queued and every write succeeded
C13_Witness ==
    /\ pc = "queue"
    /\ ~diskFailed
    /\ last.op = "incrementRetry" /\ last.ok
    /\ Len(queue) = 2
    /\ queue[1].retryCount = 2
    /\ Len(disk) = 8

\* C14: with a failed write queued, the next tool operation the running
\* process serves starts a drain of the queue.
C14_RetryOnNextOperation ==
    [][(pc = "ready" /\ queue # <<>> /\ ops' = ops + 1) =>
            (pc' = "drain" /\ items' = queue)
      ]_vars

\* C15: startup runs validate access, enumerate, populate the cache file by
\* file, drain the queue, ready, in that order; ready is entered only with
\* every enumerated file fetched and the drain finished; and no list, read,
\* save or delete is served, and no background task exists, before ready.
StartupOrder ==
    {<<"validate", "listTree">>, <<"listTree", "fetch">>, <<"fetch", "drain">>,
     <<"fetch", "ready">>, <<"drain", "drainIndex">>, <<"drainIndex", "ready">>}

C15_StartupOrdering ==
    [][/\ (pc' # pc /\ pc' \notin {"validate", "dead"}) => <<pc, pc'>> \in StartupOrder
       /\ (pc' # pc /\ pc' \in {"drain", "ready"}) => (tree = <<>> /\ tree' = <<>>)
       /\ (pc' # pc /\ pc' = "ready") => (items' = <<>> /\ idxCall' = <<>>)
       /\ (pc' = "fetch" /\ cache' # cache) => Len(tree') = Len(tree) - 1
       /\ (last'.op \in {"save", "delete", "readMiss"} /\ last' # last) =>
              (pc = "ready" /\ pc' = "ready")
       /\ pc' # "ready" => (~ENABLED List /\ \A p \in UserPaths : ~ENABLED ReadHit(p))'
       /\ pc' \notin {"ready", "dead"} => (tasks' = {} /\ reads' = {})
      ]_vars

\* a restarted process has populated its cache, drained a queued item and
\* become ready
C15_Witness ==
    /\ pc = "ready"
    /\ restarts = 1
    /\ last.op = "drainDone"
    /\ cache # <<>>
    /\ drained # <<>>

\* C16 as claimed: no remote failure during warm-up, of the enumeration or
\* of a file's fetch, is fatal to startup.
C16_WarmupNeverFatal ==
    (last.op \in {"listTree", "fetch"} /\ ~last.ok) => pc # "dead"

\* C16 as amended: a failed fetch of one file leaves the cache as it was
\* (only that file is absent), startup goes on with the remaining files,
\* which are cached when their fetch succeeds, and is not aborted; a failure
\* of the enumeration aborts startup.
C16_FetchFailureTolerated ==
    [][/\ (last'.op = "fetch" /\ last' # last) =>
            /\ pc' = "fetch"
            /\ tree # <<>> /\ last'.path = Head(tree) /\ tree' = Tail(tree)
            /\ ~last'.ok => cache' = cache
            /\ last'.ok =>
                /\ CacheHas(cache', last'.path)
                /\ CacheGet(cache', last'.path).content = remote[last'.path][1]
                /\ \A q \in RemotePaths \ {last'.path} :
                       CacheHas(cache', q) <=> CacheHas(cache, q)
       /\ (last'.op = "listTree" /\ last' # last /\ ~last'.ok) => pc' = "dead"
      ]_vars

\* a file was cached after the fetch of an earlier file had failed
C16_Witness ==
    /\ last.op = "fetch" /\ last.ok
    /\ pc = "fetch"
    /\ CacheHas(cache, last.path)
    /\ \E q \in RemotePaths :
        /\ RemoteHas(remote, q)
        /\ ~CacheHas(cache, q)
        /\ StrLess(q, last.path)

ContainsCI(str, q) ==
    \E i \in 0..(Len(str) - Len(q)) :
        \A k \in 1..Len(q) : ToLowerChar(str[i + k]) = ToLowerChar(q[k])

\* C18: search(q) returns exactly one result for every cached record whose
\* path or content contains q, letter case ignored, none for any other
\* record, and the results are in cache insertion order.
C18_SearchResults ==
    (pc = "search" /\ arg # <<>>) =>
        LET q == arg[1]
            Pos(path) == CHOOSE i \in 1..Len(cache) : cache[i].path = path
        IN /\ \A i \in 1..Len(cache) :
                Cardinality({j \in 1..Len(result) : result[j].path = cache[i].path})
                    = IF ContainsCI(cache[i].path, q) \/ ContainsCI(cache[i].content, q)
                      THEN 1 ELSE 0
           /\ \A j \in 1..Len(result) : CacheHas(cache, result[j].path)
           /\ \A j, k \in 1..Len(result) :
                j < k => Pos(result[j].path) < Pos(result[k].path)

\* a search returned two results in cache order, the first matched by its
\* path only and the second by its content only
C18_Witness ==
    /\ pc = "search" /\ arg # <<>>
    /\ Len(cache) = 2 /\ Len(result) = 2
    /\ result[1].path = cache[1].path
    /\ result[2].path = cache[2].path
    /\ ContainsCI(cache[1].path, arg[1]) /\ ~ContainsCI(cache[1].content, arg[1])
    /\ ContainsCI(cache[2].content, arg[1]) /\ ~ContainsCI(cache[2].path, arg[1])

\* the snippet of a content that holds the query: the whole content when it
\* has at most 150 characters, else the excerpt from 50 characters before
\* the first occurrence to query-length+100 characters after its start,
\* clamped, of at most `bound' characters, holding the query, with a leading
\* marker exactly when it does not start at the content's start and a
\* trailing marker exactly when it does not reach the content's end
Windowed(content, q, snippet, bound) ==
    IF Len(content) <= 150 THEN snippet = content
    ELSE LET first == CHOOSE i \in 0..(Len(content) - Len(q)) :
                        /\ ContainsCI(SubSeq(content, i + 1, i + Len(q)), q)
                        /\ \A j \in 0..(i - 1) :
                               ~ContainsCI(SubSeq(content, j + 1, j + Len(q)), q)
             from == IF first - 50 < 0 THEN 0 ELSE first - 50
             to == IF first + Len(q) + 100 > Len(content) THEN Len(content)
                   ELSE first + Len(q) + 100
             excerpt == [i \in 1..(to - from) |-> content[from + i]]
         IN /\ snippet = (IF from = 0 THEN <<>> ELSE <<".", ".", ".">>) \o excerpt
                         \o (IF to = Len(content) THEN <<>> ELSE <<".", ".", ".">>)
            /\ ContainsCI(excerpt, q)
            /\ Len(excerpt) <= bound

\* C19 as claimed: the snippet of every result whose content holds the query
\* is windowed as above, the excerpt being at most 150 characters long.
C19_SnippetWindow ==
    (pc = "search" /\ arg # <<>>) =>
        \A j \in 1..Len(result) :
            LET content == CacheGet(cache, result[j].path).content
            IN ContainsCI(content, arg[1]) =>
                   Windowed(content, arg[1], result[j].snippet, 150)

\* C19 as amended: the same, the excerpt being at most 150 characters plus
\* the length of the query long.
C19_SnippetWindowPlusQuery ==
    (pc = "search" /\ arg # <<>>) =>
        \A j \in 1..Len(result) :
            LET content == CacheGet(cache, result[j].path).content
            IN ContainsCI(content, arg[1]) =>
                   Windowed(content, arg[1], result[j].snippet, 150 + Len(arg[1]))

\* a content of 152 characters with the query at offset 50 was returned
\* whole and unmarked, as an excerpt of 150 + 2 characters
C19_Witness ==
    /\ pc = "search"
    /\ arg = << <<"a", "b">> >>
    /\ \E j \in 1..Len(result) :
        /\ Len(CacheGet(cache, result[j].path).content) = 152
        /\ result[j].snippet = CacheGet(cache, result[j].path).content

\* C20: at most one background sync or delete task per path is in flight,
\* and a path is in pendingWrites exactly while a task for it is in flight:
\* the marker is cleared when the task ends, on success and on failure, and
\* pendingWrites is empty when no task is running.
C20_InFlightMarker ==
    /\ \A t, u \in tasks : t.path = u.path => t = u
    /\ pendingWrites = {t.path : t \in tasks}
    /\ last.op \in {"syncPutFail", "syncDeleteFail", "syncIndexOk", "syncIndexFail"} =>
           last.path \notin pendingWrites

\* a second save of a path was accepted while the sync of the first is in
\* flight: still one task, with the first content
C20_Witness ==
    /\ last.op = "save" /\ last.ok
    /\ pendingWrites = {last.path}
    /\ \E t \in tasks : t.path = last.path /\ t.content # last.val
    /\ Cardinality(tasks) = 1


\* C21: delete stays deleted: a path deleted with success and not saved since
\* is absent from the cache, and a read of it does not return the deleted
\* content, whatever background completions and read fills interleave
C21_DeleteStaysDeleted ==
    \A p \in UserPaths :
        deleted[p] # <<>> =>
            /\ ~CacheHas(cache, p)
            /\ (last.op = "read" /\ last.path = p /\ last.ok) => last.val # deleted[p][1]


\* the cache and the repository disagree on path p: other content, or p
\* deleted from the cache and still in the repository
OutOfSync(p) ==
    IF CacheHas(cache, p) THEN remote[p] # <<CacheGet(cache, p).content>>
    ELSE deleted[p] # <<>> /\ RemoteHas(remote, p)

\* the current drain dropped an item of path p for retry exhaustion
Dropped(p) ==
    \E i \in DOMAIN drained :
        /\ drained[i].path = p
        /\ drained[i].outcome = "fail"
        /\ drained[i].retryCount + 1 >= MAX_RETRIES

\* C22: no silently lost mutation: a save or delete that returned success has
\* a background task carrying it to the repository or a queue item for its
\* path; and with no background task in flight, a path on which cache and
\* repository disagree has a queue item unless one was dropped
C22_NoLostMutation ==
    [][/\ (ops' # ops /\ last'.op \in {"save", "delete"}) =>
            \/ \E t \in tasks' : /\ t.path = last'.path
                                 /\ t.kind = last'.op
                                 /\ t.content = last'.val
            \/ QueueHas(queue', last'.path)
       /\ tasks' = {} =>
            \A p \in UserPaths :
                OutOfSync(p)' => QueueHas(queue', p) \/ Dropped(p)']_vars


\* C23: right after a remote put of a file succeeded, in a background sync or
\* in a queue drain, the cache record of the path carries the token that the
\* put returned
C23_TokenAfterPut ==
    last.op \in {"syncPutOk", "drainSaveOk"} =>
        /\ CacheHas(cache, last.path)
        /\ CacheGet(cache, last.path).sha = ShaOf(last.val)


\* C24: the sentinel "pending" is never sent to the repository: neither a
\* background put or delete awaiting its response nor the call that the drain
\* is about to issue carries it as the expected-revision token
C24_PendingNeverSent ==
    /\ \A t \in tasks : t.at = "remote" => t.sha # PendingSha
    /\ (pc = "drain" /\ items # <<>>) =>
           CacheSha(cache, Head(items).path) # PendingSha


\* C25 as stated: while the background put of a save is awaited, the cache
\* record of the path carries the sentinel "pending", and the token the put
\* sends is not the sentinel written by that save
C25_PendingAfterEverySave ==
    \A t \in tasks :
        (t.kind = "save" /\ t.at = "remote" /\ CacheHas(cache, t.path)) =>
            CacheGet(cache, t.path).sha = PendingSha

\* C25, amended: a save of a path with no cached record stores the record
\* with the sentinel "pending", a save of a path with a cached record keeps
\* the record's token; the token captured before the upsert is the one the
\* background put sends; and a "pending" token leaves a record only when a
\* put of the path succeeds, the path is deleted, or a read fills the cache
C25_PendingSentinel ==
    [][/\ (ops' # ops /\ last'.op = "save") =>
            LET p == last'.path
            IN /\ CacheGet(cache', p).sha =
                      IF CacheHas(cache, p) THEN CacheGet(cache, p).sha ELSE PendingSha
               /\ p \notin pendingWrites =>
                      \E t \in tasks' : /\ t.path = p
                                        /\ t.content = last'.val
                                        /\ t.sha = CacheSha(cache, p)
       /\ \A p \in UserPaths :
            (CacheSha(cache, p) = PendingSha /\ CacheSha(cache', p) # PendingSha) =>
                \/ last'.op = "restart"
                \/ last'.path = p /\ last'.op \in {"syncPutOk", "delete", "read"}]_vars

\* a save of a path whose record has a real token: the record keeps it and
\* the put in flight carries it
C25_Witness ==
    /\ last.op = "save" /\ last.ok
    /\ CacheGet(cache, last.path).sha = ShaOf("c1")
    /\ \E t \in tasks : /\ t.path = last.path /\ t.at = "remote"
                        /\ t.content = "c2" /\ t.sha = ShaOf("c1")


\* C26: a queued delete is retried against the repository: when the drain
\* processes a "delete" item whose file is still in the repository it issues
\* a remote delete, and the item leaves the queue only when that delete
\* succeeded or the retries are exhausted
C26_QueuedDeleteRetried ==
    [][(/\ pc = "drain" /\ items # <<>>
        /\ Len(drained') = Len(drained) + 1
        /\ Head(items).operation = "delete") =>
            LET item == Head(items)
            IN RemoteHas(remote, item.path) =>
                   /\ last'.op \in {"drainDeleteOk", "drainFail"}
                   /\ ~QueueHas(queue', item.path) =>
                          \/ last'.op = "drainDeleteOk"
                          \/ item.retryCount + 1 >= MAX_RETRIES]_vars


\* C27: drain of a save item: the drain issues a remote put for it; a put
\* that succeeds leaves the item's stored content in the repository, not the
\* cached content, and was accepted on the token of the cache record of the
\* path at drain time (none when the path is not cached)
C27_DrainSaveItem ==
    [][(/\ pc = "drain" /\ items # <<>>
        /\ Len(drained') = Len(drained) + 1
        /\ Head(items).operation = "save") =>
            LET item == Head(items)
            IN /\ last'.op \in {"drainSaveOk", "drainFail"}
               /\ last'.path = item.path
               /\ last'.op = "drainSaveOk" =>
                      /\ remote'[item.path] = <<item.content>>
                      /\ CacheSha(cache, item.path) = RemoteSha(remote, item.path)]_vars

\* a drained save item whose content differs from the cached content
C27_Witness ==
    /\ last.op = "drainSaveOk"
    /\ CacheHas(cache, last.path)
    /\ CacheGet(cache, last.path).content # last.val
    /\ remote[last.path] = <<last.val>>


\* C28: index failure isolation: when the index rebuild that follows a
\* successful put of a background sync fails, the path is not enqueued, an
\* existing queue item of the path is removed, the cache is left as it was
\* (the record keeps the token the put returned) and the in-flight marker is
\* cleared; and a drain whose closing index rebuild fails still returns to
\* its caller, which goes on to serve requests
C28_IndexFailureIsolated ==
    [][/\ (last'.op = "syncIndexFail" /\ \E t \in tasks \ tasks' : t.kind = "save") =>
            /\ ~QueueHas(queue', last'.path)
            /\ cache' = cache
            /\ last'.path \notin pendingWrites'
       /\ (pc = "drainIndex" /\ last'.op = "drainDone" /\ ~last'.ok) =>
            /\ pc' = "ready"
            /\ queue' = queue /\ cache' = cache]_vars

\* an index failure after a put that succeeded, with a queue item of the path
\* removed and the record still holding the token of the put
C28_Witness ==
    /\ last.op = "syncIndexFail" /\ last.had
    /\ ~QueueHas(queue, last.path)
    /\ CacheHas(cache, last.path)
    /\ CacheGet(cache, last.path).sha = ShaOf(last.val)
    /\ remote[last.path] = <<last.val>>


\* C29: manifest freshness: with no background task in flight, and no call
\* failed by the repository other than for a token that was not current, the
\* files of the cached manifest are the cached paths other than index.json
\* (in a process that started on an empty repository, so that every record
\* and the manifest come from its own saves and deletes)
C29_ManifestFresh ==
    (/\ pc = "ready" /\ restarts = 0
     /\ tasks = {} /\ ~rejected
     /\ CacheHas(cache, INDEX_PATH)) =>
        LET files == CacheGet(cache, INDEX_PATH).content.files
        IN {files[i].path : i \in 1..Len(files)} = Range(CacheKeys(cache)) \ {INDEX_PATH}


\* C30: read fill does not clobber a newer write: when the fetch of a read
\* that missed the cache returns and the cache holds a record of the path
\* (written while the fetch was in flight), the fill leaves that record as it
\* is; and a read of a cached path starts no fetch
C30_ReadFillKeepsNewerWrite ==
    [][\A p \in UserPaths :
          /\ (/\ p \in reads /\ p \notin reads'
              /\ last'.op = "read" /\ last'.path = p /\ last'.ok
              /\ CacheHas(cache, p)) =>
                 CacheGet(cache', p) = CacheGet(cache, p)
          /\ (p \in reads' /\ p \notin reads) => ~CacheHas(cache, p)]_vars


\* C31: failed background delete: when the remote delete of a background
\* delete fails, the task ends with exactly one queue item for the path, a
\* "delete" with empty content and retryCount 0, whatever item the path had
\* before; when the remote delete succeeds, the task ends with no queue item
\* for the path
C31_FailedDeleteQueued ==
    [][\A t \in tasks \ tasks' :
          /\ (t.kind = "delete" /\ t.at = "remote" /\ last'.op = "syncDeleteFail") =>
                /\ Cardinality(ItemsOf(queue', t.path)) = 1
                /\ QueueItem(queue', t.path) =
                       [path |-> t.path, content |-> "", operation |-> "delete",
                        retryCount |-> 0]
          /\ (t.kind = "delete" /\ t.at = "index"
              /\ last'.op \in {"syncIndexOk", "syncIndexFail"}) =>
                ~QueueHas(queue', t.path)]_vars

\* a failed background delete that replaced an earlier "save" item of the path
C31_Witness ==
    /\ last.op = "syncDeleteFail" /\ last.had
    /\ QueueHas(queue, last.path)
    /\ QueueItem(queue, last.path).operation = "delete"
    /\ QueueItem(queue, last.path).content = ""


\* C32: drain sequencing: the drain of a non-empty queue takes the queue as
\* its snapshot, each of its steps processes the head of what is left of the
\* snapshot and nothing else (one remote call at a time, in queue order),
\* and the one index rebuild is issued when the last item has been
\* processed, whatever the outcomes of the items were
C32_DrainSequencing ==
    [][/\ (pc = "fetch" /\ pc' = "drain") =>
            items' = queue /\ drained' = <<>> /\ idxCall' = <<>>
       /\ pc = "drain" =>
            /\ items # <<>> /\ items' = Tail(items)
            /\ \E o \in {"ok", "fail", "skip"} :
                   drained' = Append(drained, Outcome(Head(items), o))
            /\ last'.path = Head(items).path
            /\ pc' = IF items' = <<>> THEN "drainIndex" ELSE "drain"
            /\ (idxCall' # <<>>) <=> (items' = <<>>)
            /\ now' = IF items' = <<>> THEN now + 1 ELSE now
       /\ pc = "drainIndex" =>
            /\ pc' = "ready" /\ idxCall' = <<>>
            /\ now' = now /\ drained' = drained /\ items' = <<>>]_vars

\* a drain of two items, one that succeeded and one dropped for retry
\* exhaustion, finished with one index rebuild
C32_Witness ==
    /\ pc = "ready" /\ now = 2 /\ Len(drained) = 2
    /\ \E i \in 1..2 : drained[i].outcome = "ok"
    /\ \E i \in 1..2 : drained[i].outcome = "fail" /\ drained[i].retryCount + 1 = MAX_RETRIES


\* C33: independence under a hung remote call: while the remote call of the
\* background task of path P never returns, a save of another path Q still
\* returns with its sync launched and saves and deletes stay callable; the
\* sync of Q eventually ends with its in-flight marker cleared; and when its
\* put succeeds the cache record of Q carries the token the put returned
C33_HungCallIndependence ==
    /\ [][\A q \in UserPaths \ {HungPath} :
             /\ (ops' # ops /\ last'.op = "save" /\ last'.path = q
                 /\ q \notin pendingWrites) =>
                    /\ q \in pendingWrites'
                    /\ \E t \in tasks' : t.path = q /\ t.content = last'.val
             /\ (last'.op = "syncPutOk" /\ last'.path = q /\ tasks' # tasks) =>
                    CacheSha(cache', q) = ShaOf(last'.val)]_vars
    /\ [](( /\ HungPath \in pendingWrites
            /\ pc = "ready" /\ ops < MaxOps) =>
              /\ \A c \in SaveCategories, n \in SaveNames :
                     ENABLED Save(c, n, "c1")
              /\ \A p \in UserPaths : CacheHas(cache, p) => ENABLED Delete(p))
    /\ \A q \in UserPaths \ {HungPath} :
          (HungPath \in pendingWrites /\ q \in pendingWrites)
              ~> (HungPath \in pendingWrites /\ q \notin pendingWrites)

\* the sync of the other path has completed, token in the cache and marker
\* cleared, while the remote call of the task of HungPath is still out
C33_Witness ==
    /\ \E t \in tasks : t.path = HungPath /\ t.at = "remote"
    /\ HungPath \in pendingWrites
    /\ last.op = "syncIndexOk" /\ last.path # HungPath
    /\ last.path \notin pendingWrites
    /\ CacheSha(cache, last.path) = ShaOf(last.val)


\* manifest m is derived from cache c: its files are the cached paths other
\* than index.json, each once, in ascending order of path, each with the
\* part of its path before the first slash as category, or "root" when it
\* has no slash; its categories are those of the files, each once, ascending
Derived(m, c) ==
    LET paths == Range(CacheKeys(c)) \ {INDEX_PATH}
        files == m.files
        cats == m.categories
    IN /\ {files[i].path : i \in 1..Len(files)} = paths
       /\ Len(files) = Cardinality(paths)
       /\ \A i, j \in 1..Len(files) : i < j => StrLess(files[i].path, files[j].path)
       /\ \A i \in 1..Len(files) :
             LET path == files[i].path
                 slashes == {k \in 1..Len(path) : path[k] = "/"}
             IN files[i].category =
                    IF slashes = {} THEN <<"r", "o", "o", "t">>
                    ELSE SubSeq(path, 1, (CHOOSE k \in slashes : \A l \in slashes : k <= l) - 1)
       /\ {cats[i] : i \in 1..Len(cats)} = {files[i].category : i \in 1..Len(files)}
       /\ \A i, j \in 1..Len(cats) : i < j => StrLess(cats[i], cats[j])

\* C34: manifest derivation: the content updateIndex sends is derived from
\* the cache as above; when the remote write succeeds the cache record of
\* index.json holds that content and the returned token and the repository
\* holds it too; when the write fails the cache is unchanged and the failure
\* is thrown to the caller
C34_ManifestDerivation ==
    [][/\ (pc = "index" /\ pc' = "indexPut") =>
            Derived(idxCall'[1].content, cache)
       /\ (pc = "indexPut" /\ pc' = "done") =>
            \/ /\ result' = <<"ok">>
               /\ Derived(idxCall[1].content, cache)
               /\ CacheGet(cache', INDEX_PATH) =
                      [path |-> INDEX_PATH, content |-> idxCall[1].content,
                       sha |-> RemoteSha(remote', INDEX_PATH)]
               /\ remote'[INDEX_PATH] = <<idxCall[1].content>>
               /\ \A q \in IndexPaths :
                      CacheHas(cache', q) = CacheHas(cache, q)
            \/ /\ result' = <<"thrown">>
               /\ cache' = cache /\ remote' = remote]_vars

\* a rebuild that succeeded on a cache of three files inserted out of order,
\* two of them in one category and one without a slash
C34_Witness ==
    /\ pc = "done" /\ result = <<"ok">>
    /\ Len(cache) = 4
    /\ cache[1].path = <<"c">> /\ cache[3].path = <<"a", "/", "b", "/", "z">>
    /\ CacheHas(cache, INDEX_PATH)
    /\ Len(CacheGet(cache, INDEX_PATH).content.files) = 3
    /\ CacheGet(cache, INDEX_PATH).content.categories = <<<<"a">>, <<"r", "o", "o", "t">>>>

====
